---------------------------- MODULE Spec2Model ----------------------------
(***************************************************************************)
(* EcoWatt cloud endpoint (src/cpp-esp/app.py): the per-device secure      *)
(* session protocol, the inactivity-debounced telemetry aggregation and    *)
(* the chunked firmware distribution, as one state machine.                *)
(*                                                                         *)
(* Conventions                                                             *)
(*  - a Python dict keyed by device id is a function over Devices whose    *)
(*    values carry a presence field (kind / exists / has);                 *)
(*  - time.time() is the variable now, in whole seconds;                   *)
(*  - HMAC-SHA256 and SHA-256 are collision-free symbolic digests;         *)
(*  - strings are sequences of tokens, + is \o;                            *)
(*  - lastReq is the last handled request (its nonce and MAC key) and     *)
(*    its observable outcome (HTTP status, security event logged); its     *)
(*    tick flips on every request so that two equal requests in a row      *)
(*    are two events;                                                      *)
(*  - the append-only diagnostic logs (SECURITY_LOGS, FOTA_LOGS,           *)
(*    CONFIG_ACKS, CONFIG_HISTORY) are written by the handlers and read by *)
(*    none of them; of these only the security events a request's handler  *)
(*    appended are kept, in lastReq.logged.                                *)
(*                                                                         *)
(* Specifications, all from the one Init                                   *)
(*    SpecGate       config polls through verify_request_security, clock   *)
(*    SpecOutbound   polls, queued configs and acks: the outbound counter  *)
(*    SpecTelemetry  uploads against the background flusher                *)
(*    SpecFlushUnit  uploads and direct calls of _flush_device_unlocked    *)
(*    SpecCodec      envelopes sealed and opened                           *)
(*    SpecFirmware   firmware uploads                                      *)
(*    SpecRollback   rollback requests, polls and status reports           *)
(*    SpecSurfaces   header polls, envelope uploads and envelope acks      *)
(*    SpecChunks     firmware uploads and chunk requests                   *)
(*    SpecWide       the gate with nonces below 1 and far above the window *)
(*    SpecIngest     plain uploads of payloads of every length             *)
(*    SpecTelemetryLive  SpecTelemetry with a fair flusher                 *)
(*    SpecDurable    configs queued and acknowledged, process restarts     *)
(*    SpecIdle       envelope uploads over sessions that go idle           *)
(*    SpecPolls      rollback requests and concurrent rollback polls       *)
(*    SpecReplace    a firmware upload in steps against chunk requests     *)
(*    SpecEnvelope   envelope uploads with numeric and textual nonces      *)
(*    SpecCommands   commands queued and command results received         *)
(*    SpecLockout    command results, then uploads and polls               *)
(*    SpecRace       polls whose handlers interleave at the counter        *)
(*    SpecStatus     firmware uploads, status reports, device_status       *)
(***************************************************************************)
EXTENDS Integers, Sequences, FiniteSets, TLC

VARIABLES
    now,                    \* time.time()
    NONCE_STORE,            \* device_id -> session entry
    SERVER_NONCE_COUNTER,   \* global outbound nonce counter
    PENDING_CONFIGS,        \* device_id -> pending config
    lastReq,                \* outcome of the last request
    lastOut,                \* device_id -> nonce of the last secured response sent to the device (0: none)
    last_received,          \* device_id -> the last server nonce the device accepted (0: none)
    BUFFERS,                \* device_id -> debounce buffer
    bufOrder,               \* insertion order of the keys of BUFFERS
    UPLOADS,                \* flushed records (append-only)
    SINK,                   \* payloads delivered to the downstream sink
    inflight,               \* upload handlers between reading the clock and taking BUFF_LOCK
    lock,                   \* holder of BUFF_LOCK across steps
    flusher,                \* position and locals of _flusher_loop
    flushCall,              \* the last call of _flush_device_unlocked
    ingests,                \* number of upload requests received
    ingested,               \* per device: every value and byte count a handler has buffered
    FIRMWARE_MANIFEST,      \* the active manifest
    FIRMWARE_CHUNKS,        \* chunk_number -> chunk
    FOTA_STATUS,            \* device_id -> FOTA status
    lastFota,               \* the last firmware upload request and its outcome
    lastChunk,              \* the last chunk request answered from the current chunk table
    rollbacks,              \* rollback requests made and not yet answered (per id, and the ones
                            \* addressed to "all" per device), the last poll's answer, and
                            \* the polls each device was answered rollback_required = true
    rollbackPolls,          \* check_rollback_status handlers between the test of the flag
                            \* (line 1200) and its clearing (line 1203)
    firmwareUpload,         \* the upload_firmware handler between its assignment of the
                            \* manifest (line 1019) and its response: position and locals
    sealed,                 \* a secured envelope in flight and the payload it was made from
    opened,                 \* what the receiving handler made of it
    CONFIG_FILE,            \* data/pending_configs.json: the saved copy of PENDING_CONFIGS
    restarts,               \* number of restarts of the server process
    queuedNonces,           \* per device, the nonces of the configs this process has queued
                            \* for it, in order (the 'queued' entries it added to CONFIG_HISTORY)
    PENDING_COMMANDS,       \* device_id -> the command waiting for the device
    COMMAND_RESULTS,        \* the command results received
    COMMAND_HISTORY,        \* the commands queued, with their status
    responding,             \* get_device_config handlers inside create_secured_response,
                            \* between the alignment of the counter (lines 117-136) and its
                            \* increment (line 138): device and accepted request nonce
    lastStatus              \* observation: the last response of device_status

authVars == <<NONCE_STORE, SERVER_NONCE_COUNTER, PENDING_CONFIGS, lastOut, last_received>>
bufVars == <<BUFFERS, bufOrder, UPLOADS, SINK>>
flushVars == <<lock, flusher, flushCall>>
telVars == <<bufVars, inflight, flushVars, ingests, ingested>>
fotaVars == <<FIRMWARE_MANIFEST, FIRMWARE_CHUNKS, FOTA_STATUS, lastFota, lastChunk, rollbacks,
              rollbackPolls, firmwareUpload>>
codecVars == <<sealed, opened>>
durableVars == <<CONFIG_FILE, restarts, queuedNonces>>
commandVars == <<PENDING_COMMANDS, COMMAND_RESULTS, COMMAND_HISTORY>>
statusVars == <<responding, lastStatus>>
vars == <<now, lastReq, authVars, telVars, fotaVars, codecVars, durableVars, commandVars, statusVars>>

----------------------------------------------------------------------------
(* Program constants *)

NONCE_EXPIRY_SECONDS == 75
SERVER_NONCE_COUNTER_INIT == 300
FIRST_CONTACT_THRESHOLD == 50
NONCE_WINDOW == 100          \* the window the device enforces; unused by the server
MAX_FIRST_SYNC == 1000       \* the device's bound on the first server nonce

PSK == "PSK"
WrongKey == "WrongKey"
ConfigPath == <<"/api/inverter/config">>

----------------------------------------------------------------------------
(* Bounds of the model *)

MaxNonce == 2               \* inbound nonces of the gate specification are 1..MaxNonce
MaxAdvances == 2            \* number of clock advances in one behaviour
MaxCounter == 302           \* the outbound counter is not pushed beyond this from its initial value,
MaxMidCounter == 53         \* nor beyond this from just above the first-contact threshold,
MaxLowCounter == 4          \* nor beyond this within the first-contact range
MaxImageLen == 3            \* bytes of a firmware image
MaxChunkSize == 2           \* largest chunk_size of an upload
MaxRollbacks == 2           \* rollback requests per device id
MaxRestarts == 1            \* restarts of the server process
MaxQueued == 2              \* configs queued for one device by one process

Devices == {"d1", "d2"}
GateNonces == 1..MaxNonce
GateSteps == {1, NONCE_EXPIRY_SECONDS}

----------------------------------------------------------------------------
(* Helpers *)

Max(a, b) == IF a >= b THEN a ELSE b
Min(a, b) == IF a <= b THEN a ELSE b
Last(s) == s[Len(s)]

StrictlyIncreasing(s) == \A i \in 1..(Len(s) - 1) : s[i] < s[i + 1]

\* str(x) of a number: one token
Str(x) == <<x>>

\* hmac.new(key, msg, sha256).hexdigest()
HmacSha256(key, msg) == <<key, msg>>

NoSession == [kind |-> "none", nonce |-> 0, timestamp |-> 0]
NoPending == [has |-> FALSE, nonce |-> 0]

\* X-Nonce header: absent, not a number, or the decimal string of val
HdrMissing == [present |-> FALSE, numeric |-> FALSE, val |-> 0]
HdrMalformed == [present |-> TRUE, numeric |-> FALSE, val |-> 0]
HdrNonce(n) == [present |-> TRUE, numeric |-> TRUE, val |-> n]

NoReq == [tick |-> 0, op |-> "none", dev |-> "d1", numeric |-> FALSE, nonce |-> 0,
          key |-> "none", status |-> 0, kind |-> "none", expired |-> FALSE, prev |-> 0,
          logged |-> <<>>, ack |-> 0, accepted_at |-> [d \in Devices |-> 0 - 1]]

\* log_security_event: an entry of SECURITY_LOGS; lastReq.logged holds the
\* entries the handler of the request appended
SecurityEvent(device_id, event_type, details) ==
    [device_id |-> device_id, event_type |-> event_type, details |-> details]
LogSecurityEvent(req, device_id, event_type, details) ==
    [req EXCEPT !.logged = Append(@, SecurityEvent(device_id, event_type, details))]

Flip(t) == 1 - t

----------------------------------------------------------------------------
(* verify_request_security *)

IsExpiredStrictMutant(current_time, last_seen) ==
    (current_time - last_seen) >= NONCE_EXPIRY_SECONDS

IsExpired(current_time, last_seen) ==
    (current_time - last_seen) > NONCE_EXPIRY_SECONDS

\* line 191, "if nonce_data:": a session record is stored for the device
HasSessionAlwaysMutant(entry) == TRUE
HasSession(entry) == entry.kind = "rec"

\* a replay check that also enforces the documented window
IsReplayWindowMutant(nonce_int, last_nonce) ==
    nonce_int <= last_nonce \/ nonce_int > last_nonce + NONCE_WINDOW
IsReplayStrictMutant(nonce_int, last_nonce) == nonce_int < last_nonce

IsReplay(nonce_int, last_nonce) == nonce_int <= last_nonce

\* The MAC the header path recomputes: endpoint + nonce + timestamp
HeaderMacInput(path, nonceStr, tsStr) == path \o nonceStr \o tsStr

\* Result of verify_request_security for device d: success, the security
\* event logged, whether the expired entry was popped, and the entry the
\* store holds for d afterwards.  kind "fault" is the unhandled TypeError of
\* nonce_data['nonce'] on an entry written as a bare integer by upload() or
\* check_nonce().
VerifyRequestSecurity(d, hdr, tsStr, received_mac, path) ==
    LET entry == NONCE_STORE[d]
        nonceStr == Str(hdr.val)
        calculated == HmacSha256(PSK, HeaderMacInput(path, nonceStr, tsStr))
    IN  IF ~hdr.present
        THEN [ok |-> FALSE, kind |-> "missing_headers", expired |-> FALSE, entry |-> entry]
        ELSE IF ~hdr.numeric
        THEN [ok |-> FALSE, kind |-> "invalid_nonce", expired |-> FALSE, entry |-> entry]
        ELSE IF entry.kind = "int"
        THEN [ok |-> FALSE, kind |-> "fault", expired |-> FALSE, entry |-> entry]
        ELSE LET expired == HasSession(entry) /\ IsExpired(now, entry.timestamp)
                 after == IF expired THEN NoSession ELSE entry
             IN  IF HasSession(entry) /\ ~expired /\ IsReplay(hdr.val, entry.nonce)
                 THEN [ok |-> FALSE, kind |-> "replay_attack", expired |-> FALSE, entry |-> entry]
                 ELSE IF calculated # received_mac
                 THEN [ok |-> FALSE, kind |-> "hmac_failed", expired |-> expired, entry |-> after]
                 ELSE [ok |-> TRUE, kind |-> "hmac_verified", expired |-> expired,
                       entry |-> [kind |-> "rec", nonce |-> hdr.val, timestamp |-> now]]

----------------------------------------------------------------------------
(* The device's validation of a server nonce                               *)
(* (test_recovery_nonce.py, is_nonce_valid_enhanced)                       *)

IsNonceValidEnhanced(nonce, last) ==
    IF last = 0
    THEN nonce > 0 /\ nonce <= MAX_FIRST_SYNC
    ELSE nonce > last /\ nonce <= last + NONCE_WINDOW

\* the device takes a response: an accepted nonce becomes its last received
DeviceReceives(d, nonce) ==
    IF IsNonceValidEnhanced(nonce, last_received[d])
    THEN [last_received EXCEPT ![d] = nonce]
    ELSE last_received

----------------------------------------------------------------------------
(* create_secured_response: the value of SERVER_NONCE_COUNTER after the     *)
(* call, which is the nonce of the response.  With device context the      *)
(* caller has just verified the request, so the entry is a session record. *)

FirstContactCounter(device_last_nonce) ==
    Max(1, Min(FIRST_CONTACT_THRESHOLD, device_last_nonce + 1))

\* the values the outbound counter is allowed to reach
CounterInBounds(c) ==
    \/ c <= MaxLowCounter
    \/ FIRST_CONTACT_THRESHOLD < c /\ c <= MaxMidCounter
    \/ SERVER_NONCE_COUNTER_INIT <= c /\ c <= MaxCounter

\* lines 117-136: the value the counter is aligned to before the increment
CreateSecuredResponseSync(counter, hasDevice, entry) ==
    IF hasDevice
    THEN IF entry.kind = "rec"
         THEN IF entry.nonce < FIRST_CONTACT_THRESHOLD
              THEN FirstContactCounter(entry.nonce)
              ELSE Max(counter, entry.nonce + 1)
         ELSE 1
    ELSE IF counter > FIRST_CONTACT_THRESHOLD THEN 1 ELSE counter

CreateSecuredResponseNonce(counter, hasDevice, entry) ==
    CreateSecuredResponseSync(counter, hasDevice, entry) + 1

----------------------------------------------------------------------------
(* Telemetry payloads.  A raw upload body is a run of whole 9-byte samples  *)
(* followed by `trailing` (< 9) further bytes; a sample is <<reg, value>>,  *)
(* the value in thousandths (decompress_delta_payload rounds every value   *)
(* to 3 decimals).                                                          *)

SAMPLE_SIZE == 9
FLUSH_INTERVAL_SEC == 15

\* A payload is its bytes.  A sample on the wire is 9 bytes, little-endian:
\* uint32 timestamp, uint8 reg_addr, float32 value.  The float32 field is
\* modelled as the value in thousandths written as a 4-byte integer, so
\* that round(float(value), 3) is the number itself; a decoded sample is
\* <<reg_addr, value>>.
U32LE(x) == <<x % 256, (x \div 256) % 256, (x \div 65536) % 256, (x \div 16777216) % 256>>
FromU32LE(b) == b[1] + 256 * b[2] + 65536 * b[3] + 16777216 * b[4]

\* struct.pack('<IBf', ts, reg_addr, value) with ts = 0
PackSample(sample) == U32LE(0) \o <<sample[1]>> \o U32LE(sample[2])

\* struct.unpack('<IBf', data[offset:offset+sample_size])
Unpack(bytes) == <<bytes[5], FromU32LE(SubSeq(bytes, 6, SAMPLE_SIZE))>>

RECURSIVE PackSamples(_)
PackSamples(samples) ==
    IF samples = <<>> THEN <<>> ELSE PackSample(Head(samples)) \o PackSamples(Tail(samples))

\* the payload a device sends: its samples packed, then `trailing` stray bytes
Body(samples, trailing) == PackSamples(samples) \o [i \in 1..trailing |-> 0]
BodyLen(body) == Len(body)

EmptyBody == Body(<<>>, 0)

\* request.data of a JSON envelope read as telemetry: the JSON text is well
\* over 9 bytes long, so it decodes to samples made of its characters.  One
\* such sample (register 34 is the character '"') stands for them.
EnvelopeText == Body(<< <<34, 0>> >>, 1)

\* decompress_delta_payload: samples taken greedily while 9 bytes remain
RECURSIVE DecodeFrom(_, _, _)
DecodeFrom(body, offset, idx) ==
    IF offset + SAMPLE_SIZE <= BodyLen(body)
    THEN <<Unpack(SubSeq(body, offset + 1, offset + SAMPLE_SIZE))>>
             \o DecodeFrom(body, offset + SAMPLE_SIZE, idx + 1)
    ELSE <<>>

DecompressDeltaPayloadStrictMutant(body) ==
    IF BodyLen(body) <= SAMPLE_SIZE THEN <<>> ELSE DecodeFrom(body, 0, 0)
DecompressDeltaPayload(body) ==
    IF BodyLen(body) < SAMPLE_SIZE THEN <<>> ELSE DecodeFrom(body, 0, 0)

Regs == {5, 7, 34}
NoRegValues == [r \in Regs |-> <<>>]
NoBuffer == [exists |-> FALSE, reg_values |-> NoRegValues, received_bytes |-> 0, last_seen |-> 0]
NoIngested == [reg_values |-> NoRegValues, received_bytes |-> 0]

\* buf["reg_values"].setdefault(reg, []).append(val) for every sample
RECURSIVE AppendSamples(_, _)
AppendSamples(reg_values, samples) ==
    IF samples = <<>> THEN reg_values
    ELSE LET s == Head(samples)
         IN  AppendSamples([reg_values EXCEPT ![s[1]] = Append(@, s[2])], Tail(samples))

HasData(buf) == \E r \in Regs : Len(buf.reg_values[r]) > 0

RECURSIVE SeqSum(_)
SeqSum(s) == IF s = <<>> THEN 0 ELSE Head(s) + SeqSum(Tail(s))

RECURSIVE SeqMin(_)
SeqMin(s) == IF Len(s) = 1 THEN s[1] ELSE Min(Head(s), SeqMin(Tail(s)))

RECURSIVE SeqMax(_)
SeqMax(s) == IF Len(s) = 1 THEN s[1] ELSE Max(Head(s), SeqMax(Tail(s)))

\* round(total / count, digits) in units of `unit` thousandths; a mean that
\* lies exactly half way goes where the binary value of the quotient falls
RoundDiv(total, count, unit) ==
    LET den == count * unit
        q == total \div den
        r == total % den
    IN  IF 2 * r < den THEN {q * unit}
        ELSE IF 2 * r > den THEN {(q + 1) * unit}
        ELSE {q * unit, (q + 1) * unit}

\* sorted(reg_values.items()) restricted to registers with values
RECURSIVE SortedRegs(_)
SortedRegs(rs) ==
    IF rs = {} THEN <<>>
    ELSE LET m == CHOOSE x \in rs : \A y \in rs : x <= y
         IN  <<m>> \o SortedRegs(rs \ {m})

RegsWithValues(buf) == SortedRegs({r \in Regs : Len(buf.reg_values[r]) > 0})

RECURSIVE FlatValues(_, _)
FlatValues(buf, regs) ==
    IF regs = <<>> THEN <<>>
    ELSE buf.reg_values[Head(regs)] \o FlatValues(buf, Tail(regs))

----------------------------------------------------------------------------
(* _flush_device_unlocked, up to the reset of the buffer: the outcomes it   *)
(* can have on buffer buf of device_id at time t.  record.idle and         *)
(* record.values are not fields of the program's record: idle notes how     *)
(* long before the flush the buffer's last_seen was set, for the debounce   *)
(* property, and values the lists the averages were computed from (lines    *)
(* 264-268).                                                                *)

AverageOfSumMutant(vals) == {SeqSum(vals)}

AverageOf(vals) == RoundDiv(SeqSum(vals), Len(vals), 1)

RECURSIVE AveragedSamples(_, _)
AveragedSamples(buf, regs) ==
    IF regs = <<>> THEN {<<>>}
    ELSE {<<[reg_addr |-> Head(regs), value |-> v]>> \o rest :
             v \in AverageOf(buf.reg_values[Head(regs)]),
             rest \in AveragedSamples(buf, Tail(regs))}

SampleValues(averaged) == [i \in 1..Len(averaged) |-> averaged[i].value]

CompressionRatio(original_size, compressed_size) ==
    IF compressed_size > 0
    THEN {[na |-> FALSE, x100 |-> x] : x \in RoundDiv(100 * original_size, compressed_size, 1)}
    ELSE {[na |-> TRUE, x100 |-> 0]}

NormalizedKeepsBytesMutant(buf, t) ==
    [exists |-> TRUE, reg_values |-> NoRegValues,
     received_bytes |-> buf.received_bytes, last_seen |-> buf.last_seen]

\* lines 253-257: nothing to flush, the counters are reset
Normalized(buf, t) ==
    [exists |-> TRUE, reg_values |-> NoRegValues, received_bytes |-> 0,
     last_seen |-> buf.last_seen]

\* lines 316-320
ResetBuffer(t) ==
    [exists |-> TRUE, reg_values |-> NoRegValues, received_bytes |-> 0, last_seen |-> t]

FlushDeviceUnlocked(device_id, buf, t) ==
    IF ~buf.exists
    THEN {[flushed |-> FALSE, buf |-> buf]}
    ELSE IF ~HasData(buf)
    THEN {[flushed |-> FALSE, buf |-> Normalized(buf, t)]}
    ELSE LET regs == RegsWithValues(buf)
             values_flat == FlatValues(buf, regs)
         IN  {[flushed |-> TRUE,
               buf |-> ResetBuffer(t),
               record |-> [timestamp |-> t, device_id |-> device_id,
                           bytes |-> buf.received_bytes, samples |-> av,
                           idle |-> t - buf.last_seen, values |-> buf.reg_values],
               payload |-> [device_id |-> device_id, timestamp |-> t,
                            num_samples |-> Len(av),
                            original_size |-> Len(av) * 4 * 3,
                            compressed_size |-> buf.received_bytes,
                            compression_ratio |-> ratio,
                            min |-> SeqMin(values_flat),
                            avg |-> avg_v,
                            max |-> SeqMax(values_flat),
                            samples |-> SampleValues(av)]] :
                 av \in AveragedSamples(buf, regs),
                 ratio \in CompressionRatio(Len(regs) * 4 * 3, buf.received_bytes),
                 avg_v \in RoundDiv(SeqSum(values_flat), Len(values_flat), 10)}

----------------------------------------------------------------------------
(* Initial state: the module-level assignments of app.py *)

(* secured envelopes *)

\* a JSON object {nonce, all_success}, and the text json.dumps makes of a value
Dict(nonce, all_success) == <<"dict", nonce, all_success>>
JsonDumps(x) == <<"json", x>>

NoSealed ==
    [has |-> FALSE, original |-> Dict(0, FALSE),
     envelope |-> [nonce |-> 0, timestamp |-> 0, encrypted |-> FALSE,
                   payload |-> JsonDumps(Dict(0, FALSE)), mac |-> <<"none", <<>>>>]]
NoOpened == [by |-> "none", status |-> 0, mac_ok |-> FALSE, payload |-> <<"none">>]

(* firmware distribution state *)

\* hashlib.sha256(data).hexdigest()
Sha256(data) == <<"sha256", data>>

ImageBytes == {"a", "b"}
Images == UNION {[1..n -> ImageBytes] : n \in 0..MaxImageLen}
OtherImage == <<"b", "a">>
FirmwareChunkSizes == (0 - 1)..MaxChunkSize
FirmwareVersion == "1.0.1"

NoManifest ==
    [has |-> FALSE, version |-> "", size |-> 0, hash |-> <<>>, chunk_size |-> 0,
     uploaded_at |-> 0]
NoChunks == [i \in {} |-> 0]
NoCommand == [has |-> FALSE, nonce |-> 0]
NoFirmwareUpload == [pc |-> "idle", data |-> <<>>, chunk_size |-> 0, i |-> 0]

NoStatusResp ==
    [tick |-> 0, dev |-> "d1", status |-> 0, config_update |-> FALSE, command |-> FALSE,
     fota |-> FALSE, next_chunk |-> 0]

NoChunkReq ==
    [tick |-> 0, given |-> FALSE, numeric |-> TRUE, chunk_number |-> 0, status |-> 0,
     chunk |-> <<>>]

NoFotaReq ==
    [tick |-> 0, status |-> 0, kind |-> "none", data |-> <<>>, hash |-> <<>>,
     chunk_size |-> 0, size |-> 0, prev_chunks |-> 0]

FotaKeys == Devices \cup {"all"}
RollbackReasons == {"Manual rollback requested", "bad image"}

\* a FOTA_STATUS value: exists is key membership, reported says the keys of a
\* status report are present, flagged says the rollback_* keys are present;
\* chunk_none, "none" stand for Python's None
NoFotaStatus ==
    [exists |-> FALSE, reported |-> FALSE, chunk_none |-> TRUE, chunk_received |-> 0,
     verified |-> "none", boot_status |-> "none", rollback |-> FALSE, error |-> "none",
     last_update |-> 0, flagged |-> FALSE, rollback_requested |-> FALSE,
     rollback_reason |-> "", rollback_timestamp |-> 0]

NoRollbacks ==
    [requested |-> [d \in FotaKeys |-> 0], unanswered |-> [d \in FotaKeys |-> FALSE],
     tick |-> 0, dev |-> "d1", required |-> FALSE, reason |-> "",
     all_unanswered |-> [d \in Devices |-> FALSE], all_reason |-> "",
     delivered |-> [d \in Devices |-> 0]]

\* a call of _flush_device_unlocked: its device, the byte count the buffer
\* held when it was called, and whether it produced a record
NoFlushCall == [tick |-> 0, dev |-> "d1", bytes |-> 0, flushed |-> FALSE]
FlushCall(d, buf, flushed) ==
    [tick |-> Flip(flushCall.tick), dev |-> d, bytes |-> buf.received_bytes,
     flushed |-> flushed]

FlusherIdle == [pc |-> "sleep", now |-> 0, items |-> <<>>, payload |-> <<>>]

Init ==
    /\ now = 0
    /\ NONCE_STORE = [d \in Devices |-> NoSession]
    /\ SERVER_NONCE_COUNTER = SERVER_NONCE_COUNTER_INIT
    /\ PENDING_CONFIGS = [d \in Devices |-> NoPending]
    /\ lastReq = NoReq
    /\ lastOut = [d \in Devices |-> 0]
    /\ last_received = [d \in Devices |-> 0]
    /\ BUFFERS = [d \in Devices |-> NoBuffer]
    /\ bufOrder = <<>>
    /\ UPLOADS = <<>>
    /\ SINK = <<>>
    /\ inflight = <<>>
    /\ lock = "free"
    /\ flusher = FlusherIdle
    /\ flushCall = NoFlushCall
    /\ ingests = 0
    /\ ingested = [d \in Devices |-> NoIngested]
    /\ FIRMWARE_MANIFEST = NoManifest
    /\ FIRMWARE_CHUNKS = <<>>
    /\ FOTA_STATUS = [k \in FotaKeys |-> NoFotaStatus]
    /\ lastFota = NoFotaReq
    /\ lastChunk = NoChunkReq
    /\ rollbacks = NoRollbacks
    /\ rollbackPolls = <<>>
    /\ firmwareUpload = NoFirmwareUpload
    /\ sealed = NoSealed
    /\ opened = NoOpened
    /\ CONFIG_FILE = [d \in Devices |-> NoPending]
    /\ restarts = 0
    /\ queuedNonces = [d \in Devices |-> <<>>]
    /\ PENDING_COMMANDS = [d \in Devices |-> NoCommand]
    /\ COMMAND_RESULTS = <<>>
    /\ COMMAND_HISTORY = <<>>
    /\ responding = <<>>
    /\ lastStatus = NoStatusResp

\* a request with a numeric nonce and its outcome; expired and prev are the
\* handler's locals: whether it cleared an expired entry, and last_nonce;
\* ack is the nonce of the acknowledgement the device sent (plain or sealed)
\* accepted_at is the time at which the server last accepted a poll or an
\* upload of each device as authentic (-1: never)
Req(op, d, nonce, key, status, kind) ==
    [tick |-> Flip(lastReq.tick), op |-> op, dev |-> d, numeric |-> TRUE, nonce |-> nonce,
     key |-> key, status |-> status, kind |-> kind, expired |-> FALSE, prev |-> 0,
     logged |-> <<>>, ack |-> 0,
     accepted_at |-> IF kind = "hmac_verified" /\ op \in {"poll", "upload"}
                     THEN [lastReq.accepted_at EXCEPT ![d] = now]
                     ELSE lastReq.accepted_at]

----------------------------------------------------------------------------
(* The clock *)

\* a behaviour advances the clock at most MaxAdvances times, by 1 s or by step
AdvancesUsed(t, step) == (t \div step) + (t % step)

Advance(dt, step) ==
    /\ AdvancesUsed(now, step) < MaxAdvances
    /\ now' = now + dt
    /\ UNCHANGED <<lastReq, authVars, telVars, fotaVars, codecVars, durableVars, commandVars, statusVars>>

----------------------------------------------------------------------------
(* GET /api/inverter/config: get_device_config *)

Keys == {PSK, WrongKey}

\* the message verify_request_security logs with each event
VerifyDetails(kind) ==
    CASE kind = "missing_headers" -> "Missing security headers"
      [] kind = "invalid_nonce" -> "Invalid nonce format"
      [] kind = "replay_attack" -> "Replay attack detected"
      [] kind = "hmac_failed" -> "HMAC verification failed"
      [] kind = "hmac_verified" -> "Nonce"

PollReq(d, hdr, key, status, v) ==
    [Req("poll", d, hdr.val, key, status, v.kind) EXCEPT
        !.numeric = hdr.present /\ hdr.numeric,
        !.expired = v.expired,
        !.prev = NONCE_STORE[d].nonce,
        !.logged = IF v.kind = "fault"
                   THEN <<>>
                   ELSE <<SecurityEvent(d, v.kind, VerifyDetails(v.kind))>>]

GetDeviceConfig(d, hdr, key) ==
    LET tsStr == Str(now)
        received_mac == HmacSha256(key, HeaderMacInput(ConfigPath, Str(hdr.val), tsStr))
        v == VerifyRequestSecurity(d, hdr, tsStr, received_mac, ConfigPath)
        \* without a pending config the handler increments the counter first
        counter == IF PENDING_CONFIGS[d].has
                   THEN SERVER_NONCE_COUNTER
                   ELSE SERVER_NONCE_COUNTER + 1
        out == CreateSecuredResponseNonce(counter, TRUE, v.entry)
    IN  IF v.kind = "fault"
        THEN /\ lastReq' = PollReq(d, hdr, key, 500, v)
             /\ UNCHANGED <<now, authVars, telVars, fotaVars, codecVars, durableVars, commandVars, statusVars>>
        ELSE IF ~v.ok
        THEN /\ NONCE_STORE' = [NONCE_STORE EXCEPT ![d] = v.entry]
             /\ lastReq' = PollReq(d, hdr, key, 401, v)
             /\ UNCHANGED <<now, SERVER_NONCE_COUNTER, PENDING_CONFIGS, lastOut, last_received, telVars, fotaVars,
                   codecVars, durableVars, commandVars, statusVars>>
        ELSE /\ CounterInBounds(out)
             /\ NONCE_STORE' = [NONCE_STORE EXCEPT ![d] = v.entry]
             /\ SERVER_NONCE_COUNTER' = out
             /\ lastOut' = [lastOut EXCEPT ![d] = out]
             /\ last_received' = DeviceReceives(d, out)
             /\ lastReq' = PollReq(d, hdr, key, 200, v)
             /\ UNCHANGED <<now, PENDING_CONFIGS, telVars, fotaVars, codecVars, durableVars, commandVars, statusVars>>

RemoveAt(s, i) == SubSeq(s, 1, i - 1) \o SubSeq(s, i + 1, Len(s))

\* The same handler when other requests run between the statements of
\* create_secured_response (SERVER_NONCE_COUNTER is a global that the
\* request threads update without a lock).  GetDeviceConfigVerify is the
\* handler of an accepted poll up to the alignment of the counter (lines
\* 117-136); GetDeviceConfigRespond is the increment and the reading of the
\* response nonce (lines 138-139).
MaxResponding == 2          \* handlers between the alignment and the increment at one time

GetDeviceConfigVerify(d, hdr, key) ==
    LET tsStr == Str(now)
        received_mac == HmacSha256(key, HeaderMacInput(ConfigPath, Str(hdr.val), tsStr))
        v == VerifyRequestSecurity(d, hdr, tsStr, received_mac, ConfigPath)
        counter == IF PENDING_CONFIGS[d].has
                   THEN SERVER_NONCE_COUNTER
                   ELSE SERVER_NONCE_COUNTER + 1
    IN  /\ v.ok
        /\ Len(responding) < MaxResponding
        /\ NONCE_STORE' = [NONCE_STORE EXCEPT ![d] = v.entry]
        /\ SERVER_NONCE_COUNTER' = CreateSecuredResponseSync(counter, TRUE, v.entry)
        /\ responding' = Append(responding, [dev |-> d, nonce |-> hdr.val])
        /\ lastReq' = PollReq(d, hdr, key, 200, v)
        /\ UNCHANGED <<now, PENDING_CONFIGS, lastOut, last_received, telVars, fotaVars, codecVars,
                       durableVars, commandVars, lastStatus>>

GetDeviceConfigRespond(i) ==
    LET d == responding[i].dev
        nonce == SERVER_NONCE_COUNTER + 1
    IN  /\ CounterInBounds(nonce)
        /\ SERVER_NONCE_COUNTER' = nonce
        /\ lastOut' = [lastOut EXCEPT ![d] = nonce]
        /\ last_received' = DeviceReceives(d, nonce)
        /\ responding' = RemoveAt(responding, i)
        /\ UNCHANGED <<now, lastReq, NONCE_STORE, PENDING_CONFIGS, telVars, fotaVars, codecVars,
                       durableVars, commandVars, lastStatus>>

----------------------------------------------------------------------------
(* POST /api/upload: upload.  UploadRecv is the handler up to line 459     *)
(* (envelope check, decoding, reading the clock); UploadCommit is its      *)
(* critical section under BUFF_LOCK (lines 460-474).                        *)

MaxIngests == 2             \* upload requests that reach the buffer in one behaviour
MaxInflight == 1            \* upload handlers waiting for BUFF_LOCK at one time

B64Encode(x) == <<"b64", x>>
B64Decode(s) == s[2]
FlagBit(encrypted) == IF encrypted THEN "1" ELSE "0"

\* nonce + timestamp + encrypted flag + payload
EnvelopeMacInput(nonce, timestamp, encrypted, payload_str) ==
    Str(nonce) \o Str(timestamp) \o <<FlagBit(encrypted)>> \o <<payload_str>>

\* numeric: the envelope's nonce is a JSON number (and not, say, a string)
PlainUpload(body) ==
    [secured |-> FALSE, nonce |-> 0, numeric |-> TRUE, key |-> PSK, encrypted |-> FALSE,
     body |-> body]
SecuredUpload(nonce, key, encrypted, body) ==
    [secured |-> TRUE, nonce |-> nonce, numeric |-> TRUE, key |-> key, encrypted |-> encrypted,
     body |-> body]
SecuredUploadTextNonce(nonce, key, encrypted, body) ==
    [SecuredUpload(nonce, key, encrypted, body) EXCEPT !.numeric = FALSE]

Enqueue(d, compressed_payload) ==
    /\ ingests < MaxIngests
    /\ Len(inflight) < MaxInflight
    /\ ingests' = ingests + 1
    /\ ingested' = ingested
    /\ inflight' = Append(inflight, [dev |-> d,
                                     compressed_payload |-> compressed_payload,
                                     samples |-> DecompressDeltaPayload(compressed_payload),
                                     nbytes |-> BodyLen(compressed_payload),
                                     t |-> now])

UploadRecv(d, req) ==
    LET payload_str == B64Encode(req.body)
        hmac_input == EnvelopeMacInput(req.nonce, now, req.encrypted, payload_str)
        received_mac == HmacSha256(req.key, hmac_input)
        calculated_mac == HmacSha256(PSK, hmac_input)
        entry == NONCE_STORE[d]
        last_nonce == IF entry.kind = "none" THEN 0 ELSE entry.nonce
    IN  IF ~req.secured
        THEN \* plain binary upload (legacy)
             /\ Enqueue(d, req.body)
             /\ lastReq' = Req("upload", d, 0, req.key, 200, "plain")
             /\ UNCHANGED <<now, authVars, bufVars, flushVars, fotaVars, codecVars, durableVars, commandVars, statusVars>>
        ELSE IF calculated_mac # received_mac
        THEN /\ lastReq' = LogSecurityEvent(Req("upload", d, req.nonce, req.key, 401, "hmac_failed"),
                                             d, "hmac_failed", "Upload HMAC mismatch")
             /\ UNCHANGED <<now, authVars, telVars, fotaVars, codecVars, durableVars, commandVars, statusVars>>
        ELSE IF entry.kind = "rec" \/ ~req.numeric
        THEN \* nonce <= last_nonce raises TypeError on a session record and
             \* on a nonce that is not a number; the handler catches it and
             \* takes request.data as the payload
             /\ Enqueue(d, EnvelopeText)
             /\ lastReq' = [Req("upload", d, req.nonce, req.key, 200, "parse_error")
                               EXCEPT !.numeric = req.numeric]
             /\ UNCHANGED <<now, authVars, bufVars, flushVars, fotaVars, codecVars, durableVars, commandVars, statusVars>>
        ELSE IF req.nonce <= last_nonce
        THEN /\ lastReq' = LogSecurityEvent(Req("upload", d, req.nonce, req.key, 401, "replay_attack"),
                                             d, "replay_attack", "Upload nonce")
             /\ UNCHANGED <<now, authVars, telVars, fotaVars, codecVars, durableVars, commandVars, statusVars>>
        ELSE /\ Enqueue(d, B64Decode(payload_str))
             /\ NONCE_STORE' = [NONCE_STORE EXCEPT ![d] =
                                   [kind |-> "int", nonce |-> req.nonce, timestamp |-> 0]]
             /\ lastReq' = LogSecurityEvent(Req("upload", d, req.nonce, req.key, 200, "hmac_verified"),
                                             d, "hmac_verified", "Upload authenticated")
             /\ UNCHANGED <<now, SERVER_NONCE_COUNTER, PENDING_CONFIGS, lastOut, last_received,
                            bufVars, flushVars, fotaVars, codecVars, durableVars, commandVars, statusVars>>


\* what lines 466-473 have added for a device since the process started
Ingested(total, item) ==
    [reg_values |-> AppendSamples(total.reg_values, item.samples),
     received_bytes |-> total.received_bytes + item.nbytes]

\* a commit that assigns the byte count instead of adding to it
IngestOverwriteBytesMutant(buf, item) ==
    [exists |-> TRUE,
     reg_values |-> AppendSamples(buf.reg_values, item.samples),
     received_bytes |-> item.nbytes,
     last_seen |-> item.t]

Ingest(buf, item) ==
    [exists |-> TRUE,
     reg_values |-> AppendSamples(buf.reg_values, item.samples),
     received_bytes |-> buf.received_bytes + item.nbytes,
     last_seen |-> item.t]

UploadCommit(i) ==
    LET item == inflight[i]
        d == item.dev
    IN  /\ lock = "free"
        /\ BUFFERS' = [BUFFERS EXCEPT ![d] = Ingest(@, item)]
        /\ bufOrder' = IF BUFFERS[d].exists THEN bufOrder ELSE Append(bufOrder, d)
        /\ inflight' = RemoveAt(inflight, i)
        /\ ingested' = [ingested EXCEPT ![d] = Ingested(@, item)]
        /\ UNCHANGED <<now, lastReq, authVars, UPLOADS, SINK, flushVars, ingests, fotaVars, codecVars, durableVars, commandVars, statusVars>>

----------------------------------------------------------------------------
(* _flusher_loop *)

FlusherWake ==
    /\ flusher.pc = "sleep"
    /\ flusher' = [flusher EXCEPT !.pc = "snapshot", !.now = now]
    /\ UNCHANGED <<now, lastReq, authVars, bufVars, inflight, lock, flushCall, ingests, ingested, fotaVars,
                   codecVars, durableVars, commandVars, statusVars>>

FlusherSnapshot ==
    /\ flusher.pc = "snapshot"
    /\ lock = "free"
    /\ flusher' = [flusher EXCEPT !.pc = "iter", !.items = bufOrder]
    /\ UNCHANGED <<now, lastReq, authVars, bufVars, inflight, lock, flushCall, ingests, ingested, fotaVars,
                   codecVars, durableVars, commandVars, statusVars>>

\* line 346, evaluated without the lock
Due(buf, t) == HasData(buf) /\ (t - buf.last_seen) >= FLUSH_INTERVAL_SEC

FlusherCheck ==
    /\ flusher.pc = "iter"
    /\ IF flusher.items = <<>>
       THEN flusher' = [flusher EXCEPT !.pc = "sleep"]
       ELSE IF Due(BUFFERS[Head(flusher.items)], flusher.now)
       THEN flusher' = [flusher EXCEPT !.pc = "flush"]
       ELSE flusher' = [flusher EXCEPT !.items = Tail(@)]
    /\ UNCHANGED <<now, lastReq, authVars, bufVars, inflight, lock, flushCall, ingests, ingested, fotaVars,
                   codecVars, durableVars, commandVars, statusVars>>

\* with BUFF_LOCK: _flush_device_unlocked up to the push
FlusherFlush ==
    /\ flusher.pc = "flush"
    /\ lock = "free"
    /\ LET d == Head(flusher.items)
       IN  \E o \in FlushDeviceUnlocked(d, BUFFERS[d], now) :
               /\ BUFFERS' = [BUFFERS EXCEPT ![d] = o.buf]
               /\ flushCall' = FlushCall(d, BUFFERS[d], o.flushed)
               /\ IF o.flushed
                  THEN /\ UPLOADS' = Append(UPLOADS, o.record)
                       /\ lock' = "flusher"
                       /\ flusher' = [flusher EXCEPT !.pc = "push", !.payload = <<o.payload>>]
                  ELSE /\ UPLOADS' = UPLOADS
                       /\ lock' = "free"
                       /\ flusher' = [flusher EXCEPT !.pc = "iter", !.items = Tail(@)]
    /\ UNCHANGED <<now, lastReq, authVars, bufOrder, SINK, inflight, ingests, ingested, fotaVars, codecVars, durableVars, commandVars, statusVars>>

\* a push whose failure leaves BUFF_LOCK held
FlusherPushKeepsLockMutant(delivered) ==
    /\ flusher.pc = "push"
    /\ SINK' = IF delivered THEN SINK \o flusher.payload ELSE SINK
    /\ lock' = IF delivered THEN "free" ELSE lock
    /\ flusher' = [flusher EXCEPT !.pc = "iter", !.items = Tail(@), !.payload = <<>>]
    /\ UNCHANGED <<now, lastReq, authVars, BUFFERS, bufOrder, UPLOADS, inflight, flushCall,
                   ingests, ingested, fotaVars, codecVars, durableVars, commandVars, statusVars>>

\* the push without its try/except: the exception ends the sweep
FlusherPushUncaughtMutant(delivered) ==
    /\ flusher.pc = "push"
    /\ SINK' = IF delivered THEN SINK \o flusher.payload ELSE SINK
    /\ lock' = "free"
    /\ flusher' = IF delivered
                  THEN [flusher EXCEPT !.pc = "iter", !.items = Tail(@), !.payload = <<>>]
                  ELSE [flusher EXCEPT !.pc = "sleep", !.items = <<>>, !.payload = <<>>]
    /\ UNCHANGED <<now, lastReq, authVars, BUFFERS, bufOrder, UPLOADS, inflight, flushCall,
                   ingests, ingested, fotaVars, codecVars, durableVars, commandVars, statusVars>>

\* requests.post to the sink, still under BUFF_LOCK; a failure is swallowed
FlusherPush(delivered) ==
    /\ flusher.pc = "push"
    /\ SINK' = IF delivered THEN SINK \o flusher.payload ELSE SINK
    /\ lock' = "free"
    /\ flusher' = [flusher EXCEPT !.pc = "iter", !.items = Tail(@), !.payload = <<>>]
    /\ UNCHANGED <<now, lastReq, authVars, BUFFERS, bufOrder, UPLOADS, inflight, flushCall,
                   ingests, ingested, fotaVars, codecVars, durableVars, commandVars, statusVars>>

----------------------------------------------------------------------------
(* _flush_device_unlocked called directly, by a caller that holds           *)
(* BUFF_LOCK, push included.                                                *)

DirectFlush(d, delivered) ==
    /\ lock = "free"
    /\ \E o \in FlushDeviceUnlocked(d, BUFFERS[d], now) :
           /\ BUFFERS' = [BUFFERS EXCEPT ![d] = o.buf]
           /\ flushCall' = FlushCall(d, BUFFERS[d], o.flushed)
           /\ UPLOADS' = IF o.flushed THEN Append(UPLOADS, o.record) ELSE UPLOADS
           /\ SINK' = IF o.flushed /\ delivered THEN Append(SINK, o.payload) ELSE SINK
    /\ UNCHANGED <<now, lastReq, authVars, bufOrder, inflight, lock, flusher, ingests, ingested, fotaVars,
                   codecVars, durableVars, commandVars, statusVars>>

----------------------------------------------------------------------------
(* Specification of the telemetry aggregator: plain binary uploads of two   *)
(* devices, the background flusher, the sink and the clock.                 *)

TelBodies ==
    { Body(<< <<5, 12000>>, <<5, 14000>> >>, 0),
      Body(<< <<7, 13000>>, <<5, 13001>> >>, 4),
      Body(<<>>, 4) }
TelSteps == {1, FLUSH_INTERVAL_SEC}

TelUpload == \E d \in Devices, body \in TelBodies : UploadRecv(d, PlainUpload(body))
TelCommit == \E i \in 1..Len(inflight) : UploadCommit(i)
TelPush == \E delivered \in BOOLEAN : FlusherPush(delivered)
TelAdvance == \E dt \in TelSteps : Advance(dt, FLUSH_INTERVAL_SEC)

NextTelemetry ==
    \/ TelUpload
    \/ TelCommit
    \/ FlusherWake
    \/ FlusherSnapshot
    \/ FlusherCheck
    \/ FlusherFlush
    \/ TelPush
    \/ TelAdvance

SpecTelemetry == Init /\ [][NextTelemetry]_vars


\* The flusher is a thread of its own that sleeps one second between sweeps
\* and whose push returns within its timeout: each of its steps is taken
\* when it stays enabled.  Nothing is assumed of the sink, of the uploads
\* or of the clock.
SpecTelemetryLive ==
    /\ SpecTelemetry
    /\ WF_vars(FlusherWake)
    /\ WF_vars(FlusherSnapshot)
    /\ WF_vars(FlusherCheck)
    /\ WF_vars(FlusherFlush)
    /\ WF_vars(TelPush)

(* The contract of _flush_device_unlocked: uploads, direct calls, the clock *)

UnitFlush == \E d \in Devices, delivered \in BOOLEAN : DirectFlush(d, delivered)

MaxUnitIngests == 1          \* uploads before and between the direct calls

UnitBodies == TelBodies \cup { Body(<< <<5, 12000>>, <<5, 12001>> >>, 0) }

UnitUpload ==
    /\ ingests < MaxUnitIngests
    /\ \E d \in Devices, body \in UnitBodies : UploadRecv(d, PlainUpload(body))
UnitAdvance == Advance(1, FLUSH_INTERVAL_SEC)

NextFlushUnit == UnitUpload \/ TelCommit \/ UnitFlush \/ UnitAdvance

SpecFlushUnit == Init /\ [][NextFlushUnit]_vars

----------------------------------------------------------------------------
(* Specification of the authentication gate: header-authenticated config   *)
(* polls of two devices, and the clock.                                     *)

GateHeaders == {HdrMissing, HdrMalformed} \cup {HdrNonce(n) : n \in GateNonces}

GatePoll == \E d \in Devices, hdr \in GateHeaders, key \in Keys : GetDeviceConfig(d, hdr, key)
GateAdvance == \E dt \in GateSteps : Advance(dt, NONCE_EXPIRY_SECONDS)

NextGate == GatePoll \/ GateAdvance

SpecGate == Init /\ [][NextGate]_vars

----------------------------------------------------------------------------
(* The secured envelope: create_secured_response seals, upload and         *)
(* receive_config_ack open.                                                 *)

IsJsonText(s) == s[1] = "json"
IsB64Text(s) == s[1] = "b64"
\* json.loads of a JSON text
JsonLoads(s) == s[2]

\* encrypted = True in create_secured_response
SERVER_ENCRYPTED == TRUE

\* lines 143-160 with the flag as a parameter: the payload serialised, then
\* base64-encoded if the flag is set, and the MAC over nonce, timestamp, flag
\* and encoded payload
Envelope(key, nonce, timestamp, encrypted, payload_dict) ==
    LET payload_str == IF encrypted
                       THEN B64Encode(JsonDumps(payload_dict))
                       ELSE JsonDumps(payload_dict)
    IN  [nonce |-> nonce, timestamp |-> timestamp, encrypted |-> encrypted,
         payload |-> payload_str,
         mac |-> HmacSha256(key, EnvelopeMacInput(nonce, timestamp, encrypted, payload_str))]

CreateSecuredResponse(payload_dict, nonce, timestamp) ==
    Envelope(PSK, nonce, timestamp, SERVER_ENCRYPTED, payload_dict)

CalculatedMac(envelope) ==
    HmacSha256(PSK, EnvelopeMacInput(envelope.nonce, envelope.timestamp,
                                     envelope.encrypted, envelope.payload))

\* the request body parsed as JSON: the envelope itself
EnvelopeAsDict(envelope) == <<"envelope", envelope.nonce>>

Garbage == <<"garbage">>

\* base64.b64decode: the encoded bytes; applied to a text that is not base64
\* it drops the characters outside the alphabet and returns whatever bytes
\* the rest decodes to, or raises on incorrect padding
B64DecodeOutcomes(s) ==
    IF IsB64Text(s)
    THEN {[ok |-> TRUE, bytes |-> B64Decode(s)]}
    ELSE {[ok |-> TRUE, bytes |-> Garbage], [ok |-> FALSE, bytes |-> Garbage]}

Opened(by, status, mac_ok, payload) ==
    [by |-> by, status |-> status, mac_ok |-> mac_ok, payload |-> payload]

\* upload, lines 411-439 without the nonce check: the payload the handler
\* goes on with
OpenUpload(envelope) ==
    IF CalculatedMac(envelope) # envelope.mac
    THEN {Opened("upload", 401, FALSE, <<"none">>)}
    ELSE {IF r.ok THEN Opened("upload", 200, TRUE, r.bytes)
                  ELSE Opened("upload", 400, TRUE, <<"none">>) :
             r \in B64DecodeOutcomes(envelope.payload)}

\* receive_config_ack, lines 697-715: the ack the handler goes on with; a
\* payload that json.loads cannot parse raises, and the except branch takes
\* the parsed request body
OpenAck(envelope) ==
    IF CalculatedMac(envelope) # envelope.mac
    THEN Opened("ack", 401, FALSE, <<"none">>)
    ELSE IF IsJsonText(envelope.payload)
    THEN Opened("ack", 200, TRUE, JsonLoads(envelope.payload))
    ELSE Opened("ack", 200, TRUE, EnvelopeAsDict(envelope))

CodecPayloads == {Dict(n, b) : n \in 1..MaxNonce, b \in BOOLEAN}

CodecSeal ==
    \E p \in CodecPayloads, n \in 1..MaxNonce, key \in Keys, e \in BOOLEAN :
        /\ sealed' = [has |-> TRUE, original |-> p, envelope |-> Envelope(key, n, now, e, p)]
        /\ opened' = NoOpened
        /\ UNCHANGED <<now, lastReq, authVars, telVars, fotaVars, durableVars, commandVars, statusVars>>

CodecOpenUpload ==
    /\ sealed.has
    /\ opened' \in OpenUpload(sealed.envelope)
    /\ UNCHANGED <<now, lastReq, authVars, telVars, fotaVars, sealed, durableVars, commandVars, statusVars>>

CodecOpenAck ==
    /\ sealed.has
    /\ opened' = OpenAck(sealed.envelope)
    /\ UNCHANGED <<now, lastReq, authVars, telVars, fotaVars, sealed, durableVars, commandVars, statusVars>>

CodecAdvance == Advance(1, FLUSH_INTERVAL_SEC)

NextCodec == CodecSeal \/ CodecOpenUpload \/ CodecOpenAck \/ CodecAdvance
SpecCodec == Init /\ [][NextCodec]_vars

----------------------------------------------------------------------------
(* POST /api/cloud/config/send: send_config_update *)

\* save_pending_configs: json.dump of the whole map
SavePendingConfigs(pending) == pending

SendConfigUpdate(d) ==
    /\ Len(queuedNonces[d]) < MaxQueued
    /\ CounterInBounds(SERVER_NONCE_COUNTER + 1)
    /\ SERVER_NONCE_COUNTER' = SERVER_NONCE_COUNTER + 1
    /\ PENDING_CONFIGS' = [PENDING_CONFIGS EXCEPT ![d] =
                              [has |-> TRUE, nonce |-> SERVER_NONCE_COUNTER + 1]]
    /\ CONFIG_FILE' = SavePendingConfigs(PENDING_CONFIGS')
    /\ queuedNonces' = [queuedNonces EXCEPT ![d] = Append(@, SERVER_NONCE_COUNTER + 1)]
    /\ UNCHANGED <<now, lastReq, NONCE_STORE, lastOut, last_received, telVars, fotaVars,
                   codecVars, restarts, commandVars, statusVars>>

(* POST /api/inverter/config/ack: receive_config_ack *)

PlainAck(ack) == [secured |-> FALSE, ack |-> ack, envelope |-> NoSealed.envelope]
SecuredAck(key, nonce, encrypted, ack) ==
    [secured |-> TRUE, ack |-> ack, envelope |-> Envelope(key, nonce, now, encrypted, ack)]

\* ack.get('nonce'), of an ack payload or of an envelope taken for one
AckNonce(ack) == ack[2]

ReceiveConfigAck(d, req) ==
    LET o == IF req.secured THEN OpenAck(req.envelope)
                            ELSE Opened("ack", 200, TRUE, req.ack)
        ack == o.payload
        pending == PENDING_CONFIGS[d]
        out == CreateSecuredResponseNonce(SERVER_NONCE_COUNTER, FALSE, NoSession)
    IN  IF o.status = 401
        THEN /\ lastReq' = [Req("ack", d, req.envelope.nonce, req.envelope.mac[1], 401,
                                 "hmac_failed") EXCEPT !.ack = AckNonce(req.ack)]
             /\ UNCHANGED <<now, authVars, telVars, fotaVars, codecVars, durableVars, commandVars, statusVars>>
        ELSE /\ CounterInBounds(out)
             /\ PENDING_CONFIGS' =
                    IF pending.has /\ pending.nonce = AckNonce(ack)
                    THEN [PENDING_CONFIGS EXCEPT ![d] = NoPending]
                    ELSE PENDING_CONFIGS
             /\ SERVER_NONCE_COUNTER' = out
             /\ lastOut' = [lastOut EXCEPT ![d] = out]
             /\ last_received' = DeviceReceives(d, out)
             /\ lastReq' = [(IF req.secured
                              THEN Req("ack", d, req.envelope.nonce, PSK, 200, "ack")
                              ELSE Req("ack", d, AckNonce(ack), PSK, 200, "plain"))
                             EXCEPT !.ack = AckNonce(req.ack)]
             /\ UNCHANGED <<now, NONCE_STORE, telVars, fotaVars, codecVars, durableVars, commandVars, statusVars>>

(* The outbound nonces: polls, queued configurations and acknowledgements *)

\* the devices the operator queues configurations for
QueuedDevices == {"d1"}

OutNonces == {1, FIRST_CONTACT_THRESHOLD, FIRST_CONTACT_THRESHOLD + 1}

\* the acknowledgements a device sends: of the configuration it was sent, or
\* of nonce 1, plain or in an envelope with either flag
AcksOf(d) ==
    LET acks == {Dict(n, TRUE) : n \in {1, PENDING_CONFIGS[d].nonce}}
    IN  {PlainAck(a) : a \in acks} \cup
        {SecuredAck(PSK, 1, e, Dict(PENDING_CONFIGS[d].nonce, TRUE)) : e \in BOOLEAN} \cup
        {SecuredAck(WrongKey, 1, FALSE, Dict(1, TRUE))}

OutPoll == \E d \in Devices, n \in OutNonces : GetDeviceConfig(d, HdrNonce(n), PSK)
OutSend == \E d \in QueuedDevices : SendConfigUpdate(d)
OutAck == \E d \in Devices : \E req \in AcksOf(d) : ReceiveConfigAck(d, req)

NextOutbound == OutPoll \/ OutSend \/ OutAck
SpecOutbound == Init /\ [][NextOutbound]_vars

----------------------------------------------------------------------------
(* POST /api/cloud/command/send: send_command;                              *)
(* POST /api/inverter/command/result: receive_command_result                *)

MaxCommands == 2            \* commands queued in one behaviour
MaxResults == 2             \* command results accepted in one behaviour

\* the clock reading of the model's time 0, in seconds
BootEpoch == 1000

\* int(time.time() * 1000)
CommandNonce(t) == (BootEpoch + t) * 1000

SendCommand(d) ==
    LET nonce == CommandNonce(now)
    IN  /\ Len(COMMAND_HISTORY) < MaxCommands
        /\ PENDING_COMMANDS' = [PENDING_COMMANDS EXCEPT ![d] = [has |-> TRUE, nonce |-> nonce]]
        /\ COMMAND_HISTORY' = Append(COMMAND_HISTORY,
                                     [device_id |-> d, nonce |-> nonce, status |-> "pending"])
        /\ UNCHANGED <<now, lastReq, authVars, telVars, fotaVars, codecVars, durableVars,
                       COMMAND_RESULTS, responding, lastStatus>>

\* check_nonce: whether the nonce is accepted, and the entry of the device
\* afterwards.  On a session record of the header path nonce <= last_nonce
\* raises TypeError (kind "fault").
CheckNonce(entry, nonce) ==
    LET last_nonce == IF entry.kind = "none" THEN 0 ELSE entry.nonce
    IN  IF entry.kind = "rec"
        THEN [ok |-> FALSE, kind |-> "fault", entry |-> entry]
        ELSE IF nonce <= last_nonce
        THEN [ok |-> FALSE, kind |-> "replay_attack", entry |-> entry]
        ELSE [ok |-> TRUE, kind |-> "accepted",
              entry |-> [kind |-> "int", nonce |-> nonce, timestamp |-> 0]]

\* a result body: given is whether it has a nonce at all
CommandResult(given, nonce, status) == [given |-> given, nonce |-> nonce, status |-> status]

\* lines 940-945: the first history entry of the device with the nonce
RECURSIVE UpdateHistory(_, _, _, _)
UpdateHistory(history, d, nonce, status) ==
    IF history = <<>> THEN <<>>
    ELSE IF Head(history).device_id = d /\ Head(history).nonce = nonce
    THEN <<[Head(history) EXCEPT !.status = status]>> \o Tail(history)
    ELSE <<Head(history)>> \o UpdateHistory(Tail(history), d, nonce, status)

ResultReq(d, res, status, kind) ==
    [Req("result", d, res.nonce, PSK, status, kind) EXCEPT
        !.numeric = res.given,
        !.prev = NONCE_STORE[d].nonce,
        !.logged = IF kind = "replay_attack"
                   THEN <<SecurityEvent(d, "replay_attack", "Nonce"),
                          SecurityEvent(d, "replay_attack_command_result", "Nonce")>>
                   ELSE <<>>]

ReceiveCommandResult(d, res) ==
    LET \* "if nonce and ...": a missing nonce and the nonce 0 skip the check
        checked == res.given /\ res.nonce # 0
        c == IF checked THEN CheckNonce(NONCE_STORE[d], res.nonce)
                        ELSE [ok |-> TRUE, kind |-> "unchecked", entry |-> NONCE_STORE[d]]
        pending == PENDING_COMMANDS[d]
    IN  IF c.kind = "fault"
        THEN /\ lastReq' = ResultReq(d, res, 500, "fault")
             /\ UNCHANGED <<now, authVars, telVars, fotaVars, codecVars, durableVars, commandVars, statusVars>>
        ELSE IF ~c.ok
        THEN /\ lastReq' = ResultReq(d, res, 403, "replay_attack")
             /\ UNCHANGED <<now, authVars, telVars, fotaVars, codecVars, durableVars, commandVars, statusVars>>
        ELSE /\ Len(COMMAND_RESULTS) < MaxResults
             /\ NONCE_STORE' = [NONCE_STORE EXCEPT ![d] = c.entry]
             /\ COMMAND_RESULTS' = Append(COMMAND_RESULTS,
                                          [device_id |-> d, given |-> res.given,
                                           nonce |-> res.nonce, status |-> res.status])
             /\ COMMAND_HISTORY' = IF res.given
                                   THEN UpdateHistory(COMMAND_HISTORY, d, res.nonce, res.status)
                                   ELSE COMMAND_HISTORY
             /\ PENDING_COMMANDS' =
                    IF pending.has /\ res.given /\ pending.nonce = res.nonce
                    THEN [PENDING_COMMANDS EXCEPT ![d] = NoCommand]
                    ELSE PENDING_COMMANDS
             /\ lastReq' = ResultReq(d, res, 200, c.kind)
             /\ UNCHANGED <<now, SERVER_NONCE_COUNTER, PENDING_CONFIGS, lastOut, last_received,
                            telVars, fotaVars, codecVars, durableVars, responding, lastStatus>>

(* Specification of the command channel: commands queued, results of two   *)
(* devices, and the clock                                                   *)

ResultNonces(d) == {0, 1, 2, PENDING_COMMANDS[d].nonce, PENDING_COMMANDS[d].nonce + 1}
ResultsOf(d) ==
    {CommandResult(TRUE, n, "success") : n \in ResultNonces(d)}
        \cup {CommandResult(FALSE, 0, "success")}

CommandSend == \E d \in Devices : SendCommand(d)
CommandResultRecv == \E d \in Devices : \E res \in ResultsOf(d) : ReceiveCommandResult(d, res)
CommandAdvance == Advance(1, NONCE_EXPIRY_SECONDS)

NextCommands == CommandSend \/ CommandResultRecv \/ CommandAdvance
SpecCommands == Init /\ [][NextCommands]_vars

----------------------------------------------------------------------------
(* The authenticated surfaces side by side: header polls, envelope uploads *)
(* and envelope acknowledgements of the same devices                        *)

SurfaceBody == Body(<< <<5, 12000>> >>, 0)

SurfacePoll ==
    \E d \in Devices, hdr \in GateHeaders, key \in Keys : GetDeviceConfig(d, hdr, key)
SurfaceUpload ==
    \E d \in Devices, n \in GateNonces, key \in Keys :
        UploadRecv(d, SecuredUpload(n, key, TRUE, SurfaceBody))
SurfaceAck ==
    \E d \in Devices, n \in GateNonces, key \in Keys, e \in BOOLEAN :
        ReceiveConfigAck(d, SecuredAck(key, n, e, Dict(n, TRUE)))

NextSurfaces == SurfacePoll \/ SurfaceUpload \/ TelCommit \/ SurfaceAck
SpecSurfaces == Init /\ [][NextSurfaces]_vars

----------------------------------------------------------------------------
(* Devices that only upload: envelope uploads over sessions that go idle   *)

IdleUpload ==
    \E d \in Devices, n \in GateNonces, key \in Keys :
        UploadRecv(d, SecuredUpload(n, key, FALSE, SurfaceBody))

NextIdle == IdleUpload \/ TelCommit \/ GateAdvance
SpecIdle == Init /\ [][NextIdle]_vars

(* Specification of the envelope upload path alone: envelopes with numeric *)
(* and with text nonces, under either key                                   *)

EnvelopeUpload ==
    \E d \in Devices, n \in GateNonces, key \in Keys :
        UploadRecv(d, SecuredUpload(n, key, FALSE, SurfaceBody))
EnvelopeUploadTextNonce ==
    \E d \in Devices, n \in GateNonces, key \in Keys :
        UploadRecv(d, SecuredUploadTextNonce(n, key, FALSE, SurfaceBody))

NextEnvelope == EnvelopeUpload \/ EnvelopeUploadTextNonce \/ TelCommit
SpecEnvelope == Init /\ [][NextEnvelope]_vars

(* Specification of a device that executes commands: commands queued, the  *)
(* device's results for them, its envelope uploads and its polls            *)

LockoutResult ==
    \E d \in Devices :
        /\ PENDING_COMMANDS[d].has
        /\ ReceiveCommandResult(d, CommandResult(TRUE, PENDING_COMMANDS[d].nonce, "success"))
LockoutPoll == \E d \in Devices, n \in GateNonces : GetDeviceConfig(d, HdrNonce(n), PSK)

NextLockout == CommandSend \/ LockoutResult \/ EnvelopeUpload \/ TelCommit \/ LockoutPoll
SpecLockout == Init /\ [][NextLockout]_vars

----------------------------------------------------------------------------
(* upload_firmware *)

\* a // b
PyFloorDiv(a, b) == IF b > 0 THEN a \div b ELSE (0 - a) \div (0 - b)

\* the bound of a slice of a sequence of length len: a negative index counts
\* from the end, and the result is clamped to 0..len
SliceIndex(len, i) == IF i < 0 THEN Max(i + len, 0) ELSE Min(i, len)
\* s[start:end]
PySlice(s, start, end) ==
    SubSeq(s, SliceIndex(Len(s), start) + 1, SliceIndex(Len(s), end))
SliceLen(len, start, end) == Max(SliceIndex(len, end) - SliceIndex(len, start), 0)

NumChunksFloorMutant(len, chunk_size) == PyFloorDiv(len, chunk_size)
NumChunks(len, chunk_size) == PyFloorDiv(len + chunk_size - 1, chunk_size)
ChunkStart(i, chunk_size) == i * chunk_size
ChunkEnd(i, chunk_size, len) == Min(ChunkStart(i, chunk_size) + chunk_size, len)
ChunkLen(i, chunk_size, len) ==
    SliceLen(len, ChunkStart(i, chunk_size), ChunkEnd(i, chunk_size, len))

Chunk(i, firmware_data, chunk_size) ==
    LET chunk_data == PySlice(firmware_data, ChunkStart(i, chunk_size),
                              ChunkEnd(i, chunk_size, Len(firmware_data)))
    IN  [chunk_number |-> i, data |-> B64Encode(chunk_data),
         mac |-> HmacSha256(PSK, chunk_data), size |-> Len(chunk_data)]

ChunkTable(firmware_data, chunk_size) ==
    [i \in 0..(NumChunks(Len(firmware_data), chunk_size) - 1) |->
        Chunk(i, firmware_data, chunk_size)]

\* FIRMWARE_CHUNKS.clear()
ClearedChunksKeepMutant(chunks) == chunks
ClearedChunks(chunks) == NoChunks

\* FIRMWARE_CHUNKS[i] = ... for every chunk of the table
StoreChunks(chunks, table) ==
    [i \in (DOMAIN chunks) \cup (DOMAIN table) |->
        IF i \in DOMAIN table THEN table[i] ELSE chunks[i]]

HashMatchesAnyMutant(calculated_hash, fw_hash) == TRUE
HashMatches(calculated_hash, fw_hash) == calculated_hash = fw_hash

FotaReq(req, status, kind) ==
    [tick |-> Flip(lastFota.tick), status |-> status, kind |-> kind, data |-> req.data,
     hash |-> req.hash, chunk_size |-> req.chunk_size, size |-> req.size,
     prev_chunks |-> Cardinality(DOMAIN FIRMWARE_CHUNKS)]

\* req.data is the decoded firmware_data; the empty image is the empty
\* base64 string, which fails the required-fields test, as does size 0
UploadFirmware(req) ==
    /\ IF req.data = <<>> \/ req.size = 0
       THEN /\ lastFota' = FotaReq(req, 400, "missing_fields")
            /\ UNCHANGED <<FIRMWARE_MANIFEST, FIRMWARE_CHUNKS, lastChunk>>
       ELSE IF ~HashMatches(Sha256(req.data), req.hash)
       THEN /\ lastFota' = FotaReq(req, 400, "hash_mismatch")
            /\ UNCHANGED <<FIRMWARE_MANIFEST, FIRMWARE_CHUNKS, lastChunk>>
       ELSE /\ FIRMWARE_MANIFEST' =
                   [has |-> TRUE, version |-> FirmwareVersion, size |-> req.size,
                    hash |-> req.hash, chunk_size |-> req.chunk_size, uploaded_at |-> now]
            /\ lastChunk' = NoChunkReq
            /\ IF req.chunk_size = 0
               THEN \* ZeroDivisionError after FIRMWARE_CHUNKS.clear()
                    /\ FIRMWARE_CHUNKS' = ClearedChunks(FIRMWARE_CHUNKS)
                    /\ lastFota' = FotaReq(req, 500, "fault")
               ELSE /\ FIRMWARE_CHUNKS' = StoreChunks(ClearedChunks(FIRMWARE_CHUNKS),
                                                      ChunkTable(req.data, req.chunk_size))
                    /\ lastFota' = FotaReq(req, 200, "firmware_uploaded")
    /\ UNCHANGED <<now, lastReq, authVars, telVars, FOTA_STATUS, rollbacks, rollbackPolls,
                   firmwareUpload, codecVars,
                   durableVars, commandVars, statusVars>>

FirmwareUploadsOf(data) ==
    {[data |-> data, hash |-> Sha256(h), chunk_size |-> c, size |-> Len(data)] :
        h \in {data, OtherImage}, c \in FirmwareChunkSizes}
FirmwareUploads == UNION {FirmwareUploadsOf(data) : data \in Images}

FirmwareUpload == \E req \in FirmwareUploads : UploadFirmware(req)

NextFirmware == FirmwareUpload
SpecFirmware == Init /\ [][NextFirmware]_vars

----------------------------------------------------------------------------
(* trigger_fota_rollback, check_rollback_status, receive_fota_status *)

TriggerFotaRollback(device_id, reason) ==
    /\ rollbacks.requested[device_id] < MaxRollbacks
    /\ FOTA_STATUS' = [FOTA_STATUS EXCEPT ![device_id] =
           [@ EXCEPT !.exists = TRUE, !.flagged = TRUE, !.rollback_requested = TRUE,
                     !.rollback_reason = reason, !.rollback_timestamp = now]]
    /\ rollbacks' = [rollbacks EXCEPT
           !.requested[device_id] = @ + 1,
           !.unanswered[device_id] = TRUE,
           !.all_unanswered = IF device_id = "all" THEN [d \in Devices |-> TRUE] ELSE @,
           !.all_reason = IF device_id = "all" THEN reason ELSE @]
    /\ UNCHANGED <<now, lastReq, authVars, telVars, FIRMWARE_MANIFEST, FIRMWARE_CHUNKS,
                   lastFota, lastChunk, rollbackPolls, firmwareUpload, codecVars, durableVars, commandVars, statusVars>>

CheckRollbackStatus(device_id) ==
    /\ IF FOTA_STATUS[device_id].exists /\ FOTA_STATUS[device_id].rollback_requested
       THEN /\ FOTA_STATUS' = [FOTA_STATUS EXCEPT ![device_id].rollback_requested = FALSE]
            /\ rollbacks' = [rollbacks EXCEPT !.unanswered[device_id] = FALSE,
                                              !.all_unanswered[device_id] = FALSE,
                                              !.tick = Flip(@), !.dev = device_id,
                                              !.required = TRUE,
                                              !.reason = FOTA_STATUS[device_id].rollback_reason,
                                              !.delivered[device_id] = @ + 1]
       ELSE /\ rollbacks' = [rollbacks EXCEPT !.all_unanswered[device_id] = FALSE,
                                              !.tick = Flip(@), !.dev = device_id,
                                              !.required = FALSE, !.reason = ""]
            /\ UNCHANGED FOTA_STATUS
    /\ UNCHANGED <<now, lastReq, authVars, telVars, FIRMWARE_MANIFEST, FIRMWARE_CHUNKS,
                   lastFota, lastChunk, rollbackPolls, firmwareUpload, codecVars, durableVars, commandVars, statusVars>>

\* The same handler when other requests run between its statements (the
\* server answers every request on a thread of its own and the handler
\* takes no lock).  CheckRollbackTest is line 1200 and, when the flag is not
\* set, the answer of lines 1212-1214; CheckRollbackClear is lines 1202-1210
\* of a handler that found the flag set.
MaxPolls == 2               \* handlers between the test and the clearing at one time

CheckRollbackTest(device_id) ==
    /\ IF FOTA_STATUS[device_id].exists /\ FOTA_STATUS[device_id].rollback_requested
       THEN /\ Len(rollbackPolls) < MaxPolls
            /\ rollbackPolls' = Append(rollbackPolls, device_id)
            /\ UNCHANGED rollbacks
       ELSE /\ rollbacks' = [rollbacks EXCEPT !.all_unanswered[device_id] = FALSE,
                                              !.tick = Flip(@), !.dev = device_id,
                                              !.required = FALSE, !.reason = ""]
            /\ UNCHANGED rollbackPolls
    /\ UNCHANGED <<now, lastReq, authVars, telVars, FIRMWARE_MANIFEST, FIRMWARE_CHUNKS,
                   FOTA_STATUS, lastFota, lastChunk, firmwareUpload, codecVars, durableVars, commandVars, statusVars>>

CheckRollbackClear(i) ==
    LET device_id == rollbackPolls[i]
    IN  /\ FOTA_STATUS' = [FOTA_STATUS EXCEPT ![device_id].rollback_requested = FALSE]
        /\ rollbacks' = [rollbacks EXCEPT !.unanswered[device_id] = FALSE,
                                          !.all_unanswered[device_id] = FALSE,
                                          !.tick = Flip(@), !.dev = device_id,
                                          !.required = TRUE,
                                          !.reason = FOTA_STATUS[device_id].rollback_reason,
                                          !.delivered[device_id] = @ + 1]
        /\ rollbackPolls' = RemoveAt(rollbackPolls, i)
        /\ UNCHANGED <<now, lastReq, authVars, telVars, FIRMWARE_MANIFEST, FIRMWARE_CHUNKS,
                       lastFota, lastChunk, firmwareUpload, codecVars, durableVars, commandVars, statusVars>>

\* the report replaces the device's whole entry
ReceiveFotaStatus(device_id, report) ==
    /\ FOTA_STATUS' = [FOTA_STATUS EXCEPT ![device_id] =
           [exists |-> TRUE, reported |-> TRUE, chunk_none |-> report.chunk_none,
            chunk_received |-> report.chunk_received, verified |-> report.verified,
            boot_status |-> report.boot_status, rollback |-> report.rollback,
            error |-> report.error, last_update |-> now, flagged |-> FALSE,
            rollback_requested |-> FALSE, rollback_reason |-> "",
            rollback_timestamp |-> 0]]
    /\ UNCHANGED <<now, lastReq, authVars, telVars, FIRMWARE_MANIFEST, FIRMWARE_CHUNKS,
                   lastFota, lastChunk, rollbacks, rollbackPolls, firmwareUpload, codecVars, durableVars, commandVars, statusVars>>

FotaReport(chunk_none, chunk_received, verified, boot_status, rollback, error) ==
    [chunk_none |-> chunk_none, chunk_received |-> chunk_received, verified |-> verified,
     boot_status |-> boot_status, rollback |-> rollback, error |-> error]

FotaReports ==
    {FotaReport(FALSE, 0, "none", "none", FALSE, "none"),
     FotaReport(TRUE, 0, "true", "success", FALSE, "none"),
     FotaReport(TRUE, 0, "false", "failed", TRUE, "hash")}

RollbackRequest == \E k \in FotaKeys, r \in RollbackReasons : TriggerFotaRollback(k, r)
RollbackPoll == \E d \in Devices : CheckRollbackStatus(d)
RollbackReport == \E d \in Devices, r \in FotaReports : ReceiveFotaStatus(d, r)

NextRollback == RollbackRequest \/ RollbackPoll \/ RollbackReport
SpecRollback == Init /\ [][NextRollback]_vars

(* Specification of concurrent rollback polls: requests of the operator    *)
(* and the two halves of the polls of two devices                           *)

PollTest == \E d \in Devices : CheckRollbackTest(d)
PollClear == \E i \in 1..Len(rollbackPolls) : CheckRollbackClear(i)

NextPolls == RollbackRequest \/ PollTest \/ PollClear
SpecPolls == Init /\ [][NextPolls]_vars

----------------------------------------------------------------------------
(* Events: what the last step handled *)

Handled == lastReq'.tick # lastReq.tick
Polled(d) == Handled /\ lastReq'.op = "poll" /\ lastReq'.dev = d

\* the session of d is a record no older than the expiry window at the time
\* of the step
Unexpired(d) ==
    /\ NONCE_STORE[d].kind = "rec"
    /\ now - NONCE_STORE[d].timestamp <= NONCE_EXPIRY_SECONDS

PastExpiry(d) ==
    /\ NONCE_STORE[d].kind = "rec"
    /\ now - NONCE_STORE[d].timestamp > NONCE_EXPIRY_SECONDS

----------------------------------------------------------------------------
(* C1: on the header-authenticated poll path, while the session of a       *)
(* device has not expired, a poll whose nonce is <= the accepted nonce is   *)
(* rejected as a replay (401) and leaves the session as it was, and the     *)
(* session only ever moves to a strictly greater nonce: the nonces          *)
(* accepted between two expiry resets are strictly increasing.              *)

C1_ReplayRejectedStep ==
    \A d \in Devices :
        Unexpired(d) =>
            /\ (Polled(d) /\ lastReq'.numeric /\ lastReq'.nonce <= NONCE_STORE[d].nonce)
                  => /\ lastReq'.status = 401
                     /\ lastReq'.kind = "replay_attack"
                     /\ NONCE_STORE'[d] = NONCE_STORE[d]
            /\ (Polled(d) /\ lastReq'.status = 200)
                  => /\ NONCE_STORE'[d].kind = "rec"
                     /\ NONCE_STORE'[d].nonce = lastReq'.nonce
                     /\ NONCE_STORE'[d].nonce > NONCE_STORE[d].nonce
            /\ (NONCE_STORE'[d] # NONCE_STORE[d])
                  => Polled(d) /\ lastReq'.status = 200

C1_ReplayRejected == [][C1_ReplayRejectedStep]_vars

\* a replay of an accepted nonce was rejected within the window
C1_Witness ==
    /\ lastReq.op = "poll"
    /\ lastReq.kind = "replay_attack"
    /\ lastReq.status = 401
    /\ NONCE_STORE[lastReq.dev].kind = "rec"
    /\ lastReq.nonce <= NONCE_STORE[lastReq.dev].nonce
    /\ now > NONCE_STORE[lastReq.dev].timestamp

----------------------------------------------------------------------------
(* C2: reboot tolerance.  A poll with a valid MAC that arrives strictly     *)
(* more than 75 s after the session's last acceptance is accepted whatever *)
(* its nonce and the stored nonce is discarded; a session idle for at most  *)
(* 75 s is not reset.                                                       *)

C2_RebootToleranceStep ==
    \A d \in Devices :
        /\ (PastExpiry(d) /\ Polled(d) /\ lastReq'.numeric)
              => IF lastReq'.key = PSK
                 THEN /\ lastReq'.status = 200
                      /\ NONCE_STORE'[d] = [kind |-> "rec", nonce |-> lastReq'.nonce,
                                            timestamp |-> now]
                 ELSE /\ lastReq'.status = 401
                      /\ NONCE_STORE'[d] = NoSession
        /\ (Unexpired(d) /\ Polled(d))
              => /\ NONCE_STORE'[d].kind = "rec"
                 /\ NONCE_STORE'[d].nonce >= NONCE_STORE[d].nonce
                 /\ (lastReq'.numeric /\ lastReq'.nonce <= NONCE_STORE[d].nonce)
                        => lastReq'.status = 401

C2_RebootTolerance == [][C2_RebootToleranceStep]_vars

\* a poll with a nonce below the stored one was accepted after the window
C2_Witness ==
    /\ lastReq.op = "poll"
    /\ lastReq.status = 200
    /\ lastReq.expired
    /\ lastReq.nonce < lastReq.prev

\* a poll exactly 75 s after the last acceptance was still a replay
C2_WitnessBoundary ==
    /\ lastReq.op = "poll"
    /\ lastReq.kind = "replay_attack"
    /\ now - NONCE_STORE[lastReq.dev].timestamp = NONCE_EXPIRY_SECONDS

----------------------------------------------------------------------------
(* C3: debounce.  Every flush of a device's buffer happens when at least    *)
(* FLUSH_INTERVAL_SEC (15 s) have passed since the device's most recent     *)
(* Ingest set last_seen; idle is that time, taken when the record is made.  *)

C3_FlushOnlyAfterIdle ==
    \A i \in 1..Len(UPLOADS) : UPLOADS[i].idle >= FLUSH_INTERVAL_SEC

----------------------------------------------------------------------------
(* C7: Flush(d) on a buffer holding values.                                 *)

FlushCalled(d) == flushCall'.tick # flushCall.tick /\ flushCall'.dev = d

Abs(x) == IF x < 0 THEN -x ELSE x

\* samples holds one entry per register of buf that has values, in order
OneEntryPerRegister(samples, buf) ==
    /\ Len(samples) = Cardinality({r \in Regs : Len(buf.reg_values[r]) > 0})
    /\ \A i \in 1..Len(samples) : Len(buf.reg_values[samples[i].reg_addr]) > 0
    /\ \A i, j \in 1..Len(samples) : i # j => samples[i].reg_addr # samples[j].reg_addr

\* the value is the mean, exactly
IsMean(value, vals) == value * Len(vals) = SeqSum(vals)

\* the value is the mean rounded to the nearest thousandth
IsRoundedMean(value, vals) == 2 * Abs(value * Len(vals) - SeqSum(vals)) <= Len(vals)

\* C7 as claimed: one record, one entry per register with values, each
\* entry's value the arithmetic mean of the register's buffered values
C7_FlushExactMeanStep ==
    \A d \in Devices :
        (FlushCalled(d) /\ HasData(BUFFERS[d])) =>
            /\ Len(UPLOADS') = Len(UPLOADS) + 1
            /\ SubSeq(UPLOADS', 1, Len(UPLOADS)) = UPLOADS
            /\ LET rec == UPLOADS'[Len(UPLOADS')]
               IN  /\ rec.device_id = d
                   /\ OneEntryPerRegister(rec.samples, BUFFERS[d])
                   /\ \A i \in 1..Len(rec.samples) :
                          IsMean(rec.samples[i].value,
                                 BUFFERS[d].reg_values[rec.samples[i].reg_addr])

C7_FlushExactMean == [][C7_FlushExactMeanStep]_vars

\* C7 amended: each entry's value is the arithmetic mean of the register's
\* buffered values rounded to 3 decimal places
C7_FlushRoundedMeanStep ==
    \A d \in Devices :
        (FlushCalled(d) /\ HasData(BUFFERS[d])) =>
            /\ Len(UPLOADS') = Len(UPLOADS) + 1
            /\ SubSeq(UPLOADS', 1, Len(UPLOADS)) = UPLOADS
            /\ LET rec == UPLOADS'[Len(UPLOADS')]
               IN  /\ rec.device_id = d
                   /\ OneEntryPerRegister(rec.samples, BUFFERS[d])
                   /\ \A i \in 1..Len(rec.samples) :
                          IsRoundedMean(rec.samples[i].value,
                                        BUFFERS[d].reg_values[rec.samples[i].reg_addr])

C7_FlushRoundedMean == [][C7_FlushRoundedMeanStep]_vars

\* values 12.0 and 14.0 of register 5 were flushed into one entry of 13.0
C7_Witness ==
    /\ flushCall.flushed
    /\ Len(UPLOADS) = 1
    /\ UPLOADS[1].samples = << [reg_addr |-> 5, value |-> 13000] >>
    /\ ~HasData(BUFFERS[UPLOADS[1].device_id])

----------------------------------------------------------------------------
(* C8: Flush(d) on a buffer holding no values appends no record, pushes     *)
(* nothing to the sink and leaves the buffer with no register values and a  *)
(* received byte count of 0, keeping its last-activity time.                *)

C8_EmptyFlushStep ==
    \A d \in Devices :
        (FlushCalled(d) /\ ~HasData(BUFFERS[d])) =>
            /\ UPLOADS' = UPLOADS
            /\ SINK' = SINK
            /\ BUFFERS'[d].reg_values = NoRegValues
            /\ BUFFERS'[d].received_bytes = 0
            /\ BUFFERS'[d].last_seen = BUFFERS[d].last_seen

C8_EmptyFlush == [][C8_EmptyFlushStep]_vars

\* a buffer that held bytes but no values was flushed, later than its last
\* activity
C8_Witness ==
    /\ ~flushCall.flushed
    /\ flushCall.bytes > 0
    /\ BUFFERS[flushCall.dev].exists
    /\ BUFFERS[flushCall.dev].received_bytes = 0
    /\ BUFFERS[flushCall.dev].last_seen < now
    /\ UPLOADS = <<>>

----------------------------------------------------------------------------
(* Rollback signalling *)

RollbackPolled(d) == rollbacks'.tick # rollbacks.tick /\ rollbacks'.dev = d

\* C4: a CheckRollback(d) answers rollback_required = true exactly when a
\* RequestRollback(d) has been made and no CheckRollback(d) has answered true
\* since; every other CheckRollback(d) answers false.
C4_RollbackOncePerRequestStep ==
    \A d \in Devices :
        RollbackPolled(d) => (rollbacks'.required <=> rollbacks.unanswered[d])
C4_RollbackOncePerRequest == [][C4_RollbackOncePerRequestStep]_vars

----------------------------------------------------------------------------
(* Firmware upload *)

FirmwareHandled == lastFota'.tick # lastFota.tick

\* C5: an upload whose image does not hash to the declared hash is answered
\* with an error and changes neither the manifest nor the chunk table.
C5_HashMismatchNoChangeStep ==
    (FirmwareHandled /\ lastFota'.data # <<>> /\ lastFota'.hash # Sha256(lastFota'.data)) =>
        /\ lastFota'.status = 400
        /\ FIRMWARE_MANIFEST' = FIRMWARE_MANIFEST
        /\ FIRMWARE_CHUNKS' = FIRMWARE_CHUNKS
CeilDiv(a, b) == CHOOSE n \in 0..a : (n - 1) * b < a /\ a <= n * b

RECURSIVE ConcatChunks(_, _)
ConcatChunks(table, n) ==
    IF n = 0 THEN <<>> ELSE ConcatChunks(table, n - 1) \o B64Decode(table[n - 1].data)

\* C6: after a successful upload of L bytes with a chunk size c >= 1 the chunk
\* table holds exactly the chunks 0..ceil(L/c)-1, each of c bytes except the
\* last, which has L-(ceil(L/c)-1)*c bytes, and the chunks concatenated in
\* index order are the image; 10000 bytes in chunks of 4096 are 4096, 4096, 1808.
C6_ChunkingExact ==
    /\ (lastFota.kind = "firmware_uploaded" /\ lastFota.chunk_size >= 1) =>
          LET L == Len(lastFota.data)
              c == lastFota.chunk_size
              n == CeilDiv(L, c)
          IN  /\ DOMAIN FIRMWARE_CHUNKS = 0..(n - 1)
              /\ \A i \in 0..(n - 1) :
                    /\ FIRMWARE_CHUNKS[i].chunk_number = i
                    /\ FIRMWARE_CHUNKS[i].size = IF i < n - 1 THEN c ELSE L - (n - 1) * c
                    /\ Len(B64Decode(FIRMWARE_CHUNKS[i].data)) = FIRMWARE_CHUNKS[i].size
              /\ ConcatChunks(FIRMWARE_CHUNKS, n) = lastFota.data
    /\ NumChunks(10000, 4096) = 3
    /\ ChunkLen(0, 4096, 10000) = 4096
    /\ ChunkLen(1, 4096, 10000) = 4096
    /\ ChunkLen(2, 4096, 10000) = 1808

\* an image that does not divide evenly: the last chunk is shorter
C6_Witness ==
    /\ lastFota.kind = "firmware_uploaded"
    /\ lastFota.chunk_size = 2
    /\ Len(lastFota.data) = 3
    /\ DOMAIN FIRMWARE_CHUNKS = {0, 1}
    /\ FIRMWARE_CHUNKS[1].size = 1

----------------------------------------------------------------------------
(* Envelope round trip *)

\* the envelope was sealed with the pre-shared key
SealedByServerKey == sealed.envelope.mac = CalculatedMac(sealed.envelope)

\* C9: opening a sealed envelope verifies its MAC and returns the payload
\* that was sealed (for the upload endpoint, the serialised payload), for
\* either value of the encryption flag.
C9_OpenSealRoundTrip ==
    (opened.by # "none" /\ SealedByServerKey) =>
        /\ opened.mac_ok
        /\ opened.status = 200
        /\ \/ opened.payload = sealed.original
           \/ opened.payload = JsonDumps(sealed.original)

----------------------------------------------------------------------------
(* Outbound nonces *)

\* the server sent device d a secured response in this step
Answered(d) ==
    /\ Handled
    /\ lastReq'.dev = d
    /\ lastReq'.status = 200
    /\ lastReq'.op \in {"poll", "ack"}

\* C10: the nonces of the secured responses sent to one device (to its
\* config polls and to its config acks) are strictly increasing, whatever is
\* served to other devices in between.
C10_OutboundMonotonicStep ==
    \A d \in Devices :
        (Answered(d) /\ lastOut[d] # 0) => lastOut'[d] > lastOut[d]
C10_OutboundMonotonic == [][C10_OutboundMonotonicStep]_vars

----------------------------------------------------------------------------
(* Outbound nonces against the device's validation *)

\* C11: every nonce the server sends a device passes the device's own
\* validation: within 1..1000 while the device has accepted none, otherwise
\* above the last nonce the device accepted and at most 100 above it.
C11_OutboundAcceptedByDeviceStep ==
    \A d \in Devices :
        Answered(d) => IsNonceValidEnhanced(lastOut'[d], last_received[d])
C11_OutboundAcceptedByDevice == [][C11_OutboundAcceptedByDeviceStep]_vars

----------------------------------------------------------------------------
(* Authentication failures and replays on the authenticated surfaces *)

AuthFailureKinds == {"missing_headers", "invalid_nonce", "replay_attack", "hmac_failed"}

\* C12: a request answered as unauthorized has appended exactly one security
\* event, with the device id, the kind of the failure and a detail string.
C12_AuthFailureLoggedStep ==
    (Handled /\ lastReq'.status = 401) =>
        /\ Len(lastReq'.logged) = 1
        /\ lastReq'.logged[1].device_id = lastReq'.dev
        /\ lastReq'.logged[1].event_type \in AuthFailureKinds
        /\ lastReq'.logged[1].details # ""
C12_AuthFailureLogged == [][C12_AuthFailureLoggedStep]_vars

\* a secured envelope POST carrying a MAC made with the pre-shared key
IsEnvelopeReq(r) == r.op \in {"upload", "ack"} /\ r.kind # "plain" /\ r.key = PSK
\* ... that the server accepted
IsAcceptedEnvelope(r) == IsEnvelopeReq(r) /\ r.status = 200 /\ r.kind \in {"hmac_verified", "ack"}

\* C13: a validly MACed envelope whose nonce is not above the nonce of the
\* envelope accepted from the same device just before it (no other request,
\* no expiry in between) is rejected and changes nothing; the same envelope
\* delivered twice is accepted at most once.
C13_EnvelopeReplayRejectedStep ==
    \A d \in Devices :
        ( /\ Handled
          /\ IsAcceptedEnvelope(lastReq) /\ lastReq.dev = d
          /\ IsEnvelopeReq(lastReq') /\ lastReq'.dev = d
          /\ lastReq'.nonce <= lastReq.nonce )
        => /\ lastReq'.status = 401
           /\ UNCHANGED <<authVars, telVars>>
C13_EnvelopeReplayRejected == [][C13_EnvelopeReplayRejectedStep]_vars

----------------------------------------------------------------------------
(* Pending configurations *)

Acked(d) == Handled /\ lastReq'.op = "ack" /\ lastReq'.dev = d /\ lastReq'.status = 200

\* C14: a device has at most one pending config and queuing replaces it; a
\* poll does not remove it; an accepted acknowledgement removes it exactly
\* when the acknowledgement's nonce equals the pending config's nonce and
\* otherwise leaves it as it is.
C14_PendingConfigStep ==
    \A d \in Devices :
        /\ Polled(d) => PENDING_CONFIGS' = PENDING_CONFIGS
        /\ Acked(d) =>
              PENDING_CONFIGS' =
                  IF PENDING_CONFIGS[d].has /\ PENDING_CONFIGS[d].nonce = lastReq'.ack
                  THEN [PENDING_CONFIGS EXCEPT ![d] = NoPending]
                  ELSE PENDING_CONFIGS
        /\ (~Handled /\ PENDING_CONFIGS'[d] # PENDING_CONFIGS[d]) =>
              /\ PENDING_CONFIGS'[d].has
              /\ \A e \in Devices \ {d} : PENDING_CONFIGS'[e] = PENDING_CONFIGS[e]
C14_PendingConfig == [][C14_PendingConfigStep]_vars

----------------------------------------------------------------------------
(* Chunk serving: get_fota_chunk *)

ChunkArg(given, numeric, value) == [given |-> given, numeric |-> numeric, value |-> value]

\* request.args.get('chunk_number', 0)
ChunkNumberArg(arg) == IF arg.given THEN arg.value ELSE 0

\* FIRMWARE_CHUNKS.get(chunk_num): a sequence of no chunk or one chunk
ChunkLookupNextMutant(chunks, chunk_num) ==
    IF chunk_num + 1 \in DOMAIN chunks THEN <<chunks[chunk_num + 1]>> ELSE <<>>
ChunkLookup(chunks, chunk_num) ==
    IF chunk_num \in DOMAIN chunks THEN <<chunks[chunk_num]>> ELSE <<>>

ChunkReq(arg, status, chunk) ==
    [tick |-> Flip(lastChunk.tick), given |-> arg.given, numeric |-> arg.numeric,
     chunk_number |-> ChunkNumberArg(arg), status |-> status, chunk |-> chunk]

GetFotaChunk(arg) ==
    /\ IF arg.given /\ ~arg.numeric
       THEN \* int() raises ValueError
            lastChunk' = ChunkReq(arg, 500, <<>>)
       ELSE LET chunk == ChunkLookup(FIRMWARE_CHUNKS, ChunkNumberArg(arg))
            IN  IF chunk # <<>>
                THEN lastChunk' = ChunkReq(arg, 200, chunk)
                ELSE lastChunk' = ChunkReq(arg, 404, <<>>)
    /\ UNCHANGED <<now, lastReq, authVars, telVars, FIRMWARE_MANIFEST, FIRMWARE_CHUNKS,
                   FOTA_STATUS, lastFota, rollbacks, rollbackPolls, firmwareUpload, codecVars, durableVars, commandVars, statusVars>>

ServedImages == {<<"a", "b", "a">>, <<"b", "a">>, <<"b">>}
ServedChunkSizes == 1..MaxChunkSize
ServedUploads ==
    {[data |-> data, hash |-> Sha256(data), chunk_size |-> c, size |-> Len(data)] :
        data \in ServedImages, c \in ServedChunkSizes}
ChunkArgs ==
    {ChunkArg(FALSE, TRUE, 0), ChunkArg(TRUE, FALSE, 0)}
        \cup {ChunkArg(TRUE, TRUE, i) : i \in (0 - 1)..MaxImageLen}

ChunkUpload == \E req \in ServedUploads : UploadFirmware(req)
ChunkGet == \E arg \in ChunkArgs : GetFotaChunk(arg)

NextChunks == ChunkUpload \/ ChunkGet
SpecChunks == Init /\ [][NextChunks]_vars

----------------------------------------------------------------------------
(* upload_firmware when other requests run between its statements: the     *)
(* handler takes no lock and every request is answered on a thread of its   *)
(* own.  UploadFirmwareBegin is the handler up to the assignment of the     *)
(* manifest (line 1019), UploadFirmwareClear lines 1028-1029,               *)
(* UploadFirmwareStore one pass of the loop (lines 1033-1047) and           *)
(* UploadFirmwareEnd the response.  One upload runs at a time.              *)

UploadFirmwareBegin(req) ==
    /\ firmwareUpload.pc = "idle"
    /\ IF req.data = <<>> \/ req.size = 0
       THEN /\ lastFota' = FotaReq(req, 400, "missing_fields")
            /\ UNCHANGED <<FIRMWARE_MANIFEST, lastChunk, firmwareUpload>>
       ELSE IF ~HashMatches(Sha256(req.data), req.hash)
       THEN /\ lastFota' = FotaReq(req, 400, "hash_mismatch")
            /\ UNCHANGED <<FIRMWARE_MANIFEST, lastChunk, firmwareUpload>>
       ELSE /\ FIRMWARE_MANIFEST' =
                   [has |-> TRUE, version |-> FirmwareVersion, size |-> req.size,
                    hash |-> req.hash, chunk_size |-> req.chunk_size, uploaded_at |-> now]
            /\ lastChunk' = NoChunkReq
            /\ lastFota' = FotaReq(req, 0, "running")
            /\ firmwareUpload' = [pc |-> "clear", data |-> req.data,
                                  chunk_size |-> req.chunk_size, i |-> 0]
    /\ UNCHANGED <<now, lastReq, authVars, telVars, FIRMWARE_CHUNKS, FOTA_STATUS, rollbacks,
                   rollbackPolls, codecVars, durableVars, commandVars, statusVars>>

UploadFirmwareClear ==
    /\ firmwareUpload.pc = "clear"
    /\ FIRMWARE_CHUNKS' = ClearedChunks(FIRMWARE_CHUNKS)
    /\ IF firmwareUpload.chunk_size = 0
       THEN \* ZeroDivisionError at line 1029
            /\ lastFota' = [lastFota EXCEPT !.status = 500, !.kind = "fault"]
            /\ firmwareUpload' = NoFirmwareUpload
       ELSE /\ lastFota' = lastFota
            /\ firmwareUpload' = [firmwareUpload EXCEPT !.pc = "store"]
    /\ UNCHANGED <<now, lastReq, authVars, telVars, FIRMWARE_MANIFEST, FOTA_STATUS, lastChunk,
                   rollbacks, rollbackPolls, codecVars, durableVars, commandVars, statusVars>>

UploadFirmwareStore ==
    LET i == firmwareUpload.i
    IN  /\ firmwareUpload.pc = "store"
        /\ i < NumChunks(Len(firmwareUpload.data), firmwareUpload.chunk_size)
        /\ FIRMWARE_CHUNKS' =
               StoreChunks(FIRMWARE_CHUNKS,
                           [j \in {i} |-> Chunk(i, firmwareUpload.data, firmwareUpload.chunk_size)])
        /\ firmwareUpload' = [firmwareUpload EXCEPT !.i = i + 1]
        /\ UNCHANGED <<now, lastReq, authVars, telVars, FIRMWARE_MANIFEST, FOTA_STATUS, lastFota,
                       lastChunk, rollbacks, rollbackPolls, codecVars, durableVars, commandVars, statusVars>>

UploadFirmwareEnd ==
    /\ firmwareUpload.pc = "store"
    /\ firmwareUpload.i >= NumChunks(Len(firmwareUpload.data), firmwareUpload.chunk_size)
    /\ lastFota' = [lastFota EXCEPT !.status = 200, !.kind = "firmware_uploaded"]
    /\ firmwareUpload' = NoFirmwareUpload
    /\ UNCHANGED <<now, lastReq, authVars, telVars, FIRMWARE_MANIFEST, FIRMWARE_CHUNKS, FOTA_STATUS,
                   lastChunk, rollbacks, rollbackPolls, codecVars, durableVars, commandVars, statusVars>>

(* Specification of an image replaced while devices fetch chunks: uploads  *)
(* of well-formed images, in steps, and chunk requests                      *)

ReplaceBegin == \E req \in ServedUploads : UploadFirmwareBegin(req)

NextReplace ==
    \/ ReplaceBegin
    \/ UploadFirmwareClear
    \/ UploadFirmwareStore
    \/ UploadFirmwareEnd
    \/ ChunkGet
SpecReplace == Init /\ [][NextReplace]_vars

ChunkServed == lastChunk' # lastChunk /\ lastChunk'.status # 0

\* C15: a chunk request changes no server state (manifest, chunk table,
\* FOTA status, session registry, counter, pending configs, buffers); for a
\* numeric index its answer is the chunk stored under that index in the
\* current table, or not-found when the table has none; and a request for
\* the index of the previous request on the same table gets the same answer.
C15_GetChunkStatelessStep ==
    ChunkServed =>
        /\ UNCHANGED <<FIRMWARE_MANIFEST, FIRMWARE_CHUNKS, FOTA_STATUS, NONCE_STORE,
                       SERVER_NONCE_COUNTER, PENDING_CONFIGS, bufVars>>
        /\ lastChunk'.numeric =>
              LET i == lastChunk'.chunk_number
              IN  IF i \in DOMAIN FIRMWARE_CHUNKS
                  THEN /\ lastChunk'.status = 200
                       /\ lastChunk'.chunk = <<FIRMWARE_CHUNKS[i]>>
                       /\ FIRMWARE_CHUNKS[i].chunk_number = i
                  ELSE /\ lastChunk'.status = 404
                       /\ lastChunk'.chunk = <<>>
        /\ (lastChunk.status # 0 /\ lastChunk'.numeric = lastChunk.numeric
                /\ lastChunk'.chunk_number = lastChunk.chunk_number) =>
              /\ lastChunk'.status = lastChunk.status
              /\ lastChunk'.chunk = lastChunk.chunk

C15_GetChunkStateless == [][C15_GetChunkStatelessStep]_vars

\* at least two requests on the current table, the last one served chunk 1
C15_Witness ==
    /\ lastChunk.status = 200
    /\ lastChunk.tick = 0
    /\ lastChunk.chunk_number = 1
    /\ lastChunk.chunk # <<>>

----------------------------------------------------------------------------
\* C16: a pending rollback flag of device d survives every step that is not
\* a CheckRollback(d), and its reason changes only by a new RequestRollback(d);
\* in particular a ReportStatus(d) leaves both in place.
C16_RollbackFlagPersistsStep ==
    \A d \in FotaKeys :
        (FOTA_STATUS[d].rollback_requested /\ ~RollbackPolled(d)) =>
            /\ FOTA_STATUS'[d].rollback_requested
            /\ (rollbacks'.requested[d] = rollbacks.requested[d]) =>
                  FOTA_STATUS'[d].rollback_reason = FOTA_STATUS[d].rollback_reason
C16_RollbackFlagPersists == [][C16_RollbackFlagPersistsStep]_vars

----------------------------------------------------------------------------
Pushed == flusher.pc = "push" /\ flusher'.pc # "push"

\* C17: when the push to the sink is attempted the flushed record is already
\* the last entry of UPLOADS and the device's buffer is already reset; the
\* push, delivered or not, changes neither; an undelivered payload is dropped
\* (the sink is unchanged and nothing is kept for a retry); and the sweep
\* continues with the remaining devices, the lock released.
C17_SinkFailureStep ==
    Pushed =>
        LET d == Head(flusher.items)
            record == UPLOADS[Len(UPLOADS)]
        IN  /\ UPLOADS # <<>>
            /\ record.device_id = d
            /\ SampleValues(record.samples) = flusher.payload[1].samples
            /\ UPLOADS' = UPLOADS
            /\ BUFFERS[d].reg_values = NoRegValues
            /\ BUFFERS[d].received_bytes = 0
            /\ BUFFERS' = BUFFERS
            /\ SINK' = SINK \/ SINK' = SINK \o flusher.payload
            /\ flusher'.pc = "iter"
            /\ flusher'.items = Tail(flusher.items)
            /\ flusher'.payload = <<>>
            /\ lock' = "free"
C17_SinkFailure == [][C17_SinkFailureStep]_vars

\* two devices flushed one after the other, both deliveries failed, both
\* records kept
C17_Witness ==
    /\ Len(UPLOADS) = 2
    /\ UPLOADS[1].device_id # UPLOADS[2].device_id
    /\ SINK = <<>>
    /\ flusher.pc = "sleep"

----------------------------------------------------------------------------
(* Specification of the gate with a wide range of inbound nonces: polls    *)
(* whose nonce is negative, zero, small, or far above the window.           *)

FarNonce == 3 * NONCE_WINDOW
WideNonces == {0 - 1, 0, 1, FarNonce}
WideHeaders == {HdrNonce(n) : n \in WideNonces}

WidePoll == \E d \in Devices, hdr \in WideHeaders, key \in Keys : GetDeviceConfig(d, hdr, key)
WideAdvance == \E dt \in GateSteps : Advance(dt, NONCE_EXPIRY_SECONDS)

NextWide == WidePoll \/ WideAdvance
SpecWide == Init /\ [][NextWide]_vars

\* C18: first contact.  When no session is stored for a device, a poll with
\* a valid MAC is accepted whatever its nonce, and the session becomes that
\* nonce with the time of the acceptance.
C18_FirstContactStep ==
    \A d \in Devices :
        (NONCE_STORE[d] = NoSession /\ Polled(d) /\ lastReq'.numeric /\ lastReq'.key = PSK) =>
            /\ lastReq'.status = 200
            /\ lastReq'.kind = "hmac_verified"
            /\ NONCE_STORE'[d] = [kind |-> "rec", nonce |-> lastReq'.nonce, timestamp |-> now]
C18_FirstContact == [][C18_FirstContactStep]_vars

\* a poll with nonce -1 was accepted with no expiry involved: no session can
\* have preceded it
C18_Witness ==
    /\ lastReq.op = "poll"
    /\ lastReq.status = 200
    /\ ~lastReq.expired
    /\ lastReq.nonce = 0 - 1
    /\ NONCE_STORE[lastReq.dev] = [kind |-> "rec", nonce |-> 0 - 1, timestamp |-> now]

\* C19: no upper bound on inbound nonces.  For an unexpired session a poll
\* with a valid MAC and a nonce above the stored one is accepted, however
\* far above, and becomes the stored nonce.
C19_NoUpperBoundStep ==
    \A d \in Devices :
        (Unexpired(d) /\ Polled(d) /\ lastReq'.numeric /\ lastReq'.key = PSK
            /\ lastReq'.nonce > NONCE_STORE[d].nonce) =>
            /\ lastReq'.status = 200
            /\ NONCE_STORE'[d] = [kind |-> "rec", nonce |-> lastReq'.nonce, timestamp |-> now]
----------------------------------------------------------------------------
\* the sweep of the flusher moves past device d
SweptPast(d) ==
    /\ flusher.pc \in {"iter", "flush"}
    /\ flusher.items # <<>>
    /\ Head(flusher.items) = d
    /\ flusher'.pc = "iter"
    /\ flusher'.items = Tail(flusher.items)

\* C20: when a sweep moves past a device whose buffer holds no samples, no
\* record is appended and the buffer is left in the empty state, its
\* received byte count 0.
C20_SweepNormalizesStep ==
    \A d \in Devices :
        (SweptPast(d) /\ BUFFERS[d].exists /\ ~HasData(BUFFERS[d])) =>
            /\ UPLOADS' = UPLOADS
            /\ BUFFERS'[d].reg_values = NoRegValues
            /\ BUFFERS'[d].received_bytes = 0
C20_SweepNormalizes == [][C20_SweepNormalizesStep]_vars

----------------------------------------------------------------------------
(* Specification of the ingest of raw payloads: plain uploads whose body   *)
(* is any prefix of a packed three-sample payload, so every length from 0  *)
(* to 27 bytes and every remainder modulo 9 occurs.                         *)

IngestSamples == << <<5, 12000>>, <<7, 13000>>, <<5, 14000>> >>
IngestPayloads ==
    {SubSeq(Body(IngestSamples, 0), 1, n) : n \in 0..(SAMPLE_SIZE * Len(IngestSamples))}

IngestUpload == \E d \in Devices, body \in IngestPayloads : UploadRecv(d, PlainUpload(body))

NextIngest == IngestUpload \/ TelCommit
SpecIngest == Init /\ [][NextIngest]_vars

\* the values of the first k 9-byte slices of data that carry register r
RECURSIVE SliceValues(_, _, _)
SliceValues(data, k, r) ==
    IF k = 0 THEN <<>>
    ELSE LET at == SAMPLE_SIZE * (k - 1)
             rest == SliceValues(data, k - 1, r)
         IN  IF data[at + 5] = r
             THEN Append(rest, FromU32LE(SubSeq(data, at + 6, at + SAMPLE_SIZE)))
             ELSE rest

\* C21: the ingest of a payload of n bytes appends, for every register, the
\* values of the first floor(n/9) 9-byte slices that carry the register, in
\* payload order, to the device's list of that register, and adds the full
\* n to the device's received byte count; the n mod 9 trailing bytes add no
\* sample.
C21_IngestDecodesStep ==
    (Len(inflight) = 1 /\ inflight' = <<>>) =>
        LET item == inflight[1]
            d == item.dev
            n == Len(item.compressed_payload)
        IN  /\ BUFFERS'[d].received_bytes = BUFFERS[d].received_bytes + n
            /\ \A r \in Regs :
                  BUFFERS'[d].reg_values[r] =
                      BUFFERS[d].reg_values[r]
                          \o SliceValues(item.compressed_payload, n \div SAMPLE_SIZE, r)
            /\ \A e \in Devices \ {d} : BUFFERS'[e] = BUFFERS[e]
C21_IngestDecodes == [][C21_IngestDecodesStep]_vars

\* a payload of 22 bytes gave two samples and 22 received bytes
C21_Witness ==
    /\ inflight = <<>>
    /\ ingests = 1
    /\ BUFFERS["d1"].received_bytes = 2 * SAMPLE_SIZE + 4
    /\ BUFFERS["d1"].reg_values[5] = <<12000>>
    /\ BUFFERS["d1"].reg_values[7] = <<13000>>

----------------------------------------------------------------------------
\* the number of chunks of the image of the last upload
ActiveChunks == CeilDiv(Len(lastFota.data), lastFota.chunk_size)

\* C22: a successful upload leaves a chunk table whose indices are exactly
\* 0..n-1 for the n chunks of the new image and whose chunks, concatenated,
\* are the new image, however many chunks the table held before; and a
\* chunk request for an index outside 0..n-1 is answered not-found.
C22_ChunkTableRebuiltStep ==
    /\ (FirmwareHandled /\ lastFota'.status = 200) =>
          LET n == CeilDiv(Len(lastFota'.data), lastFota'.chunk_size)
          IN  /\ DOMAIN FIRMWARE_CHUNKS' = 0..(n - 1)
              /\ ConcatChunks(FIRMWARE_CHUNKS', n) = lastFota'.data
              /\ \A i \in 0..(n - 1) : FIRMWARE_CHUNKS'[i].chunk_number = i
    /\ (ChunkServed /\ lastFota.status = 200 /\ lastChunk'.numeric
            /\ lastChunk'.chunk_number \notin 0..(ActiveChunks - 1)) =>
          /\ lastChunk'.status = 404
          /\ lastChunk'.chunk = <<>>
C22_ChunkTableRebuilt == [][C22_ChunkTableRebuiltStep]_vars

\* an image of one chunk replaced one of three chunks, and chunk 1 was then
\* not found
C22_Witness ==
    /\ lastFota.status = 200
    /\ lastFota.prev_chunks = 3
    /\ DOMAIN FIRMWARE_CHUNKS = {0}
    /\ lastChunk.status = 404
    /\ lastChunk.chunk_number = 1

----------------------------------------------------------------------------
\* C23: the first CheckRollback(d) after a RequestRollback addressed to
\* "all" answers rollback_required = true, with the reason of that request
\* unless a request addressed to d itself is also unanswered.
C23_RollbackAllStep ==
    \A d \in Devices :
        (RollbackPolled(d) /\ rollbacks.all_unanswered[d]) =>
            /\ rollbacks'.required
            /\ ~rollbacks.unanswered[d] => rollbacks'.reason = rollbacks.all_reason
C23_RollbackAll == [][C23_RollbackAllStep]_vars

----------------------------------------------------------------------------
\* no upload is on its way and none will come
UploadsOver == ingests = MaxIngests /\ inflight = <<>>

Accumulating(d) == BUFFERS[d].exists /\ HasData(BUFFERS[d])
IdleElapsed(d) == now - BUFFERS[d].last_seen >= FLUSH_INTERVAL_SEC
Emptied(d) ==
    /\ BUFFERS[d].reg_values = NoRegValues
    /\ BUFFERS[d].received_bytes = 0
    /\ \E i \in 1..Len(UPLOADS) : UPLOADS[i].device_id = d

\* C24: a device that holds buffered samples, gets no further upload and
\* has been idle for the debounce interval is eventually flushed: a record
\* of it exists and its buffer is empty, whatever the sink does with this
\* or any other device's delivery.
C24_EventuallyFlushed ==
    \A d \in Devices : (Accumulating(d) /\ UploadsOver /\ IdleElapsed(d)) ~> Emptied(d)

\* both devices were flushed although no delivery succeeded
C24_Witness ==
    /\ UploadsOver
    /\ \A d \in Devices : Emptied(d)
    /\ SINK = <<>>
    /\ Len(UPLOADS) = 2

----------------------------------------------------------------------------
\* C25: every poll, envelope upload and ack ends in acceptance or in an
\* unauthorized response, never in a fault, and a request with a valid MAC
\* and a numeric nonce above the nonce last accepted from the device is
\* accepted, whichever surface accepted that nonce.
C25_SurfacesShareSessionStep ==
    Handled =>
        /\ lastReq'.status \in {200, 401}
        /\ lastReq'.kind \notin {"fault", "parse_error"}
        /\ (lastReq'.op \in {"poll", "upload"} /\ lastReq'.numeric /\ lastReq'.key = PSK
                /\ NONCE_STORE[lastReq'.dev].kind # "none"
                /\ lastReq'.nonce > NONCE_STORE[lastReq'.dev].nonce) =>
              /\ lastReq'.status = 200
              /\ lastReq'.kind = "hmac_verified"
C25_SurfacesShareSession == [][C25_SurfacesShareSessionStep]_vars

----------------------------------------------------------------------------
(* Restart of the server process: the module is loaded again, every        *)
(* in-memory store starts empty and load_pending_configs reads the file.   *)

\* load_pending_configs: json.load of the file
LoadPendingConfigs(file) == file

Restart ==
    /\ restarts < MaxRestarts
    /\ restarts' = restarts + 1
    /\ queuedNonces' = [d \in Devices |-> <<>>]
    /\ PENDING_COMMANDS' = [d \in Devices |-> NoCommand]
    /\ COMMAND_RESULTS' = <<>>
    /\ COMMAND_HISTORY' = <<>>
    /\ responding' = <<>>
    /\ lastStatus' = NoStatusResp
    /\ PENDING_CONFIGS' = LoadPendingConfigs(CONFIG_FILE)
    /\ NONCE_STORE' = [d \in Devices |-> NoSession]
    /\ SERVER_NONCE_COUNTER' = SERVER_NONCE_COUNTER_INIT
    /\ BUFFERS' = [d \in Devices |-> NoBuffer]
    /\ bufOrder' = <<>>
    /\ UPLOADS' = <<>>
    /\ inflight' = <<>>
    /\ lock' = "free"
    /\ flusher' = FlusherIdle
    /\ FIRMWARE_MANIFEST' = NoManifest
    /\ FIRMWARE_CHUNKS' = <<>>
    /\ FOTA_STATUS' = [k \in FotaKeys |-> NoFotaStatus]
    /\ ingested' = [d \in Devices |-> NoIngested]
    /\ UNCHANGED <<now, lastReq, lastOut, last_received, SINK, flushCall, ingests, lastFota,
                   lastChunk, rollbacks, codecVars, CONFIG_FILE>>
    /\ rollbackPolls' = <<>>
    /\ firmwareUpload' = NoFirmwareUpload

(* Specification of the durable pending-config store: configs queued,      *)
(* acknowledged, and the process restarted.                                 *)

DurableSend == \E d \in Devices : SendConfigUpdate(d)
DurableAck ==
    \E d \in Devices :
        \E n \in OutNonces \cup {PENDING_CONFIGS[d].nonce} :
            ReceiveConfigAck(d, PlainAck(Dict(n, TRUE)))

NextDurable == DurableSend \/ DurableAck \/ Restart
SpecDurable == Init /\ [][NextDurable]_vars

\* C26: after every step the saved copy of the pending configs equals the
\* in-memory store, and a restart leaves the store as it was: no
\* acknowledged config becomes pending again.
C26_DurableFollowsStep ==
    /\ CONFIG_FILE' = PENDING_CONFIGS'
    /\ (restarts' # restarts) => PENDING_CONFIGS' = PENDING_CONFIGS
C26_DurableFollows == [][C26_DurableFollowsStep]_vars

----------------------------------------------------------------------------
\* C27 as claimed: a poll that fails verification leaves the session of
\* every device exactly as it was.
C27_FailedPollNoChangeStep ==
    (Handled /\ lastReq'.op = "poll" /\ lastReq'.status = 401) => NONCE_STORE' = NONCE_STORE
C27_FailedPollNoChange == [][C27_FailedPollNoChangeStep]_vars

\* C27 amended: a poll that fails verification leaves the session of every
\* device as it was (a rejected replay does not refresh the last-seen time),
\* except that a poll with a numeric nonce and a wrong MAC that arrives after
\* the expiry window discards the expired session of its device.
C27_FailedPollDiscardsOnlyExpiredStep ==
    \A d \in Devices :
        (Polled(d) /\ lastReq'.status = 401) =>
            /\ \A e \in Devices \ {d} : NONCE_STORE'[e] = NONCE_STORE[e]
            /\ IF PastExpiry(d) /\ lastReq'.numeric
               THEN /\ lastReq'.kind = "hmac_failed"
                    /\ NONCE_STORE'[d] = NoSession
               ELSE NONCE_STORE'[d] = NONCE_STORE[d]
C27_FailedPollDiscardsOnlyExpired == [][C27_FailedPollDiscardsOnlyExpiredStep]_vars

\* a poll with a wrong MAC after the window left no session behind
C27_Witness ==
    /\ lastReq.op = "poll"
    /\ lastReq.status = 401
    /\ lastReq.kind = "hmac_failed"
    /\ lastReq.expired
    /\ lastReq.prev > 0
    /\ NONCE_STORE[lastReq.dev] = NoSession


----------------------------------------------------------------------------
(* C28: the envelope upload path applies the nonce policy of the header    *)
(* path: an upload with a valid MAC from a device whose session has been    *)
(* idle for more than the expiry window is accepted whatever its nonce,     *)
(* and an accepted upload records its nonce together with the acceptance    *)
(* time.                                                                    *)

Uploaded(d) == Handled /\ lastReq'.op = "upload" /\ lastReq'.dev = d

\* the server last accepted a request of d more than the expiry window ago
IdleSession(d) ==
    /\ lastReq.accepted_at[d] >= 0
    /\ now - lastReq.accepted_at[d] > NONCE_EXPIRY_SECONDS

C28_IdleUploadAcceptedStep ==
    \A d \in Devices :
        (Uploaded(d) /\ lastReq'.key = PSK /\ IdleSession(d)) =>
            /\ lastReq'.status = 200
            /\ lastReq'.kind = "hmac_verified"

C28_AcceptanceRecordsTimeStep ==
    \A d \in Devices :
        (Uploaded(d) /\ lastReq'.kind = "hmac_verified") =>
            NONCE_STORE'[d] = [kind |-> "rec", nonce |-> lastReq'.nonce, timestamp |-> now]

C28_IdleUploadAccepted == [][C28_IdleUploadAcceptedStep]_vars
C28_AcceptanceRecordsTime == [][C28_AcceptanceRecordsTimeStep]_vars

C28_UploadPolicyEqualsHeader ==
    [][C28_IdleUploadAcceptedStep /\ C28_AcceptanceRecordsTimeStep]_vars


----------------------------------------------------------------------------
(* C29: no sample is lost or counted twice, whatever the interleaving of   *)
(* upload handlers and the flusher: for every device and register, the     *)
(* values ingested are the values of the device's flushed records, each     *)
(* once, followed by the values still buffered; every record's averages     *)
(* are those of the values it took; and the bytes of the device's records   *)
(* plus its buffered bytes are the bytes ingested.                          *)

RecordsOf(d) == SelectSeq(UPLOADS, LAMBDA rec : rec.device_id = d)

RECURSIVE FlushedValues(_, _)
FlushedValues(records, r) ==
    IF records = <<>> THEN <<>>
    ELSE Head(records).values[r] \o FlushedValues(Tail(records), r)

RECURSIVE FlushedBytes(_)
FlushedBytes(records) ==
    IF records = <<>> THEN 0 ELSE Head(records).bytes + FlushedBytes(Tail(records))

\* the averages of a record are those of the values it took
AveragesOfTaken(rec) ==
    LET taken == [reg_values |-> rec.values]
    IN  rec.samples \in AveragedSamples(taken, RegsWithValues(taken))

C29_NoSampleLostOrTwice ==
    \A d \in Devices :
        /\ \A r \in Regs :
               ingested[d].reg_values[r] =
                   FlushedValues(RecordsOf(d), r) \o BUFFERS[d].reg_values[r]
        /\ \A i \in 1..Len(UPLOADS) : AveragesOfTaken(UPLOADS[i])
        /\ FlushedBytes(RecordsOf(d)) + BUFFERS[d].received_bytes
               = ingested[d].received_bytes

\* an upload was committed between the flusher's unlocked check and its
\* flush, and the one record took the values and bytes of both uploads
C29_Witness ==
    \E d \in Devices :
        /\ RecordsOf(d) # <<>>
        /\ RecordsOf(d)[1].idle < FLUSH_INTERVAL_SEC
        /\ RecordsOf(d)[1].bytes = ingested[d].received_bytes
        /\ ingests = MaxIngests
        /\ \E r \in Regs : Len(RecordsOf(d)[1].values[r]) > 2


----------------------------------------------------------------------------
(* C30: the read-and-clear of the rollback flag is atomic: of the polls of *)
(* a device that run concurrently after one rollback request, at most one  *)
(* is answered rollback_required = true; a device is never answered true   *)
(* more often than rollbacks were requested for it.                         *)

C30_AtMostOnePerRequest ==
    \A d \in Devices : rollbacks.delivered[d] <= rollbacks.requested[d]


----------------------------------------------------------------------------
(* C31: manifest and chunk table are replaced together: at every moment,   *)
(* also while an upload runs, the chunk table is the complete chunk set of  *)
(* the manifest (the chunks 0..n-1 of an image whose hash is the            *)
(* manifest's), and the chunk sizes add up to the manifest's size.          *)

RECURSIVE ChunkBytes(_, _)
ChunkBytes(chunks, n) ==
    IF n = 0 THEN <<>>
    ELSE ChunkBytes(chunks, n - 1) \o B64Decode(chunks[n - 1].data)

RECURSIVE ChunkSizes(_, _)
ChunkSizes(chunks, n) ==
    IF n = 0 THEN 0 ELSE ChunkSizes(chunks, n - 1) + chunks[n - 1].size

CompleteChunkSet(manifest, chunks) ==
    LET n == Cardinality(DOMAIN chunks)
    IN  /\ n > 0
        /\ DOMAIN chunks = 0..(n - 1)
        /\ Sha256(ChunkBytes(chunks, n)) = manifest.hash
        /\ ChunkSizes(chunks, n) = manifest.size

C31_ReplacedTogether ==
    FIRMWARE_MANIFEST.has => CompleteChunkSet(FIRMWARE_MANIFEST, FIRMWARE_CHUNKS)


----------------------------------------------------------------------------
(* C32: a secured envelope upload that is not accepted (MAC mismatch,      *)
(* replay, or a fault while it is verified) hands nothing to the telemetry  *)
(* buffer and leaves the stored nonces as they were; only an accepted       *)
(* envelope is decoded and ingested.                                        *)

C32_UnacceptedAddsNothingStep ==
    \A d \in Devices :
        (Uploaded(d) /\ lastReq'.kind \notin {"plain", "hmac_verified"}) =>
            /\ inflight' = inflight
            /\ BUFFERS' = BUFFERS
            /\ NONCE_STORE' = NONCE_STORE

C32_UnacceptedAddsNothing == [][C32_UnacceptedAddsNothingStep]_vars


----------------------------------------------------------------------------
(* C33: a pending config is removed only by an acknowledgement that passed *)
(* MAC verification: an acknowledgement without a MAC (a body without the   *)
(* envelope fields) never clears a device's pending config.                 *)

C33_OnlyVerifiedAckClearsStep ==
    \A d \in Devices :
        /\ (PENDING_CONFIGS[d].has /\ ~PENDING_CONFIGS'[d].has) =>
               (Acked(d) /\ lastReq'.kind = "ack")
        /\ (Acked(d) /\ lastReq'.kind = "plain") => PENDING_CONFIGS' = PENDING_CONFIGS

C33_OnlyVerifiedAckClears == [][C33_OnlyVerifiedAckClearsStep]_vars


----------------------------------------------------------------------------
(* C34: the nonces of the configs queued for a device are pairwise         *)
(* distinct over the life of the process, also after secured responses      *)
(* have realigned the outbound counter.                                     *)

C34_ConfigNoncesDistinct ==
    \A d \in Devices :
        \A i, j \in 1..Len(queuedNonces[d]) :
            i # j => queuedNonces[d][i] # queuedNonces[d][j]


----------------------------------------------------------------------------
(* C35: a command result whose nonce is <= the device's stored nonce is    *)
(* rejected with an error response and leaves the pending commands, the    *)
(* command results and the command history as they were; an accepted        *)
(* result removes the device's pending command if and only if its nonce is  *)
(* the pending command's, and touches no other device's.                    *)

Resulted(d) == Handled /\ lastReq'.op = "result" /\ lastReq'.dev = d

\* NONCE_STORE.get(device_id, 0) of a device without a session record
StoredNonce(d) == IF NONCE_STORE[d].kind = "none" THEN 0 ELSE NONCE_STORE[d].nonce

C35_CommandResultStep ==
    \A d \in Devices :
        (Resulted(d) /\ lastReq'.numeric) =>
            /\ lastReq'.nonce <= StoredNonce(d) =>
                   /\ lastReq'.status >= 400
                   /\ UNCHANGED commandVars
            /\ lastReq'.status = 200 =>
                   PENDING_COMMANDS' =
                       IF PENDING_COMMANDS[d].has /\ PENDING_COMMANDS[d].nonce = lastReq'.nonce
                       THEN [PENDING_COMMANDS EXCEPT ![d] = NoCommand]
                       ELSE PENDING_COMMANDS

C35_CommandResult == [][C35_CommandResultStep]_vars


----------------------------------------------------------------------------
(* C36: accepting a command result does not lock the device out: when the  *)
(* last thing the server accepted of a device is a command result, the      *)
(* device's next envelope upload and its next poll, with a valid MAC and    *)
(* the device's next nonce (here of a device none of whose own nonces was   *)
(* accepted before), are accepted.                                          *)

\* the stored nonce of d is the one of a command result
HoldsCommandNonce(d) ==
    /\ NONCE_STORE[d].kind = "int"
    /\ NONCE_STORE[d].nonce >= CommandNonce(0)

C36_NoLockoutStep ==
    \A d \in Devices :
        ( /\ Uploaded(d) \/ Polled(d)
          /\ lastReq'.key = PSK
          /\ lastReq'.numeric
          /\ lastReq'.nonce >= 1
          /\ lastReq.accepted_at[d] < 0
          /\ HoldsCommandNonce(d) ) =>
            /\ lastReq'.status = 200
            /\ lastReq'.kind = "hmac_verified"

C36_NoLockout == [][C36_NoLockoutStep]_vars


----------------------------------------------------------------------------
(* The response nonce of a poll when the request threads interleave        *)
(* (app.run serves each request on its own thread; create_secured_response *)
(* takes no lock around SERVER_NONCE_COUNTER).                             *)

RaceNonces == {1, FarNonce}

\* a device waits for the response before it sends its next request
Awaiting(d) == \E i \in 1..Len(responding) : responding[i].dev = d

RaceVerify ==
    \E d \in Devices, n \in RaceNonces :
        ~Awaiting(d) /\ GetDeviceConfigVerify(d, HdrNonce(n), PSK)
RaceRespond == \E i \in 1..Len(responding) : GetDeviceConfigRespond(i)

NextRace == RaceVerify \/ RaceRespond

SpecRace == Init /\ [][NextRace]_vars

\* C37: the nonce of a response issued with device context is above the
\* nonce the device's request was accepted with: that nonce + 2, at most 51,
\* when it is below the first-contact threshold, and at least that nonce + 2
\* otherwise, whatever other devices' requests run in between.
C37_ResponseAboveInboundStep ==
    \A i \in 1..Len(responding) :
        responding' = RemoveAt(responding, i)
            => LET last == responding[i].nonce
                   nonce == lastOut'[responding[i].dev]
               IN  /\ nonce > last
                   /\ last < FIRST_CONTACT_THRESHOLD
                          => nonce = Min(last + 2, FIRST_CONTACT_THRESHOLD + 1)
                   /\ last >= FIRST_CONTACT_THRESHOLD => nonce >= last + 2

C37_ResponseAboveInbound == [][C37_ResponseAboveInboundStep]_vars


----------------------------------------------------------------------------
(* POST /api/device/status: device_status (lines 1291-1325)                *)

\* FOTA_STATUS.get(device_id, {}).get('chunk_received', -1), lines 1313-1314:
\* -1 when the device has no status or its status has no such key (a status
\* made by trigger_fota_rollback), otherwise the stored value, which is
\* None when the device's report had no chunk_received (lines 1095, 1102)
LastChunk(device_fota) ==
    IF device_fota.exists /\ device_fota.reported
    THEN [none |-> device_fota.chunk_none, val |-> device_fota.chunk_received]
    ELSE [none |-> FALSE, val |-> 0 - 1]

StatusResp(d, status, fota, next_chunk) ==
    [tick |-> Flip(lastStatus.tick), dev |-> d, status |-> status,
     config_update |-> PENDING_CONFIGS[d].has, command |-> PENDING_COMMANDS[d].has,
     fota |-> fota, next_chunk |-> next_chunk]

DeviceStatus(d) ==
    LET last_chunk == LastChunk(FOTA_STATUS[d])
        next_chunk == last_chunk.val + 1
    IN  /\ lastStatus' =
               IF ~FIRMWARE_MANIFEST.has
               THEN StatusResp(d, 200, FALSE, 0)
               ELSE IF last_chunk.none
               THEN StatusResp(d, 500, FALSE, 0)      \* None + 1 at line 1315
               ELSE IF next_chunk < Cardinality(DOMAIN FIRMWARE_CHUNKS)
               THEN StatusResp(d, 200, TRUE, next_chunk)
               ELSE StatusResp(d, 200, FALSE, 0)
        /\ UNCHANGED <<now, lastReq, authVars, telVars, fotaVars, codecVars, durableVars,
                       commandVars, responding>>

\* the reports of a device: chunk indices of the served images, and a
\* report that carries no chunk_received
StatusChunks == {0, 1}
StatusReports ==
    {FotaReport(FALSE, c, "none", "none", FALSE, "none") : c \in StatusChunks}
        \cup {FotaReport(TRUE, 0, "true", "success", FALSE, "none")}

StatusUpload == \E req \in ServedUploads : UploadFirmware(req)
StatusReport == \E d \in Devices, r \in StatusReports : ReceiveFotaStatus(d, r)
StatusRollback == \E d \in Devices : TriggerFotaRollback(d, "bad image")
StatusPoll == \E d \in Devices : DeviceStatus(d)

NextStatus == StatusUpload \/ StatusReport \/ StatusRollback \/ StatusPoll

SpecStatus == Init /\ [][NextStatus]_vars

StatusAnswered == lastStatus'.tick # lastStatus.tick

\* the index of the last chunk the device acknowledged, -1 before the first
Acknowledged(d) ==
    IF FOTA_STATUS[d].exists /\ FOTA_STATUS[d].reported /\ ~FOTA_STATUS[d].chunk_none
    THEN FOTA_STATUS[d].chunk_received
    ELSE 0 - 1

\* C38: device_status never faults, and when its response has a firmware
\* section, next_chunk is the device's last acknowledged chunk index plus 1
\* and lies in 0 .. (number of chunks of the active image) - 1, whatever FOTA
\* status the device has.
C38_StatusOffersValidWorkStep ==
    StatusAnswered
        => /\ lastStatus'.status = 200
           /\ lastStatus'.fota
                  => /\ lastStatus'.next_chunk = Acknowledged(lastStatus'.dev) + 1
                     /\ 0 <= lastStatus'.next_chunk
                     /\ lastStatus'.next_chunk
                            < NumChunks(FIRMWARE_MANIFEST.size, FIRMWARE_MANIFEST.chunk_size)

C38_StatusOffersValidWork == [][C38_StatusOffersValidWorkStep]_vars


----------------------------------------------------------------------------
\* an upload handler waiting at line 460 for a device other than the one
\* whose flush is being delivered
WaitingForOther ==
    \E i \in 1..Len(inflight) : inflight[i].dev # Head(flusher.items)

\* C39: the sink delivery of a flush is not performed while BUFF_LOCK is
\* held: while a delivery is in progress the lock is free, so that an upload
\* handler for another device can enter its critical section.
C39_DeliveryOutsideLock ==
    flusher.pc = "push" /\ WaitingForOther => lock = "free"

=============================================================================
